---- MODULE Spec2Model ----
(***************************************************************************)
(* A model of the genny static site generator: the template composer      *)
(* (body splitting, custom-tag rewriting, marker stripping), the usage    *)
(* analyzer, the build pipeline (Site.Load / Site.Generate driven by      *)
(* Orchestrator.RunOnce) and the watch loop (Orchestrator.RunContinuous   *)
(* with FileWatcher.Watch).                                                *)
(*                                                                         *)
(* Texts are sequences of one-character strings, so that literal          *)
(* substring search, slicing and replacement are computed as the Go code  *)
(* computes them.  Offsets are 0-based as in Go; -1 means "not found".    *)
(***************************************************************************)
EXTENDS Integers, Sequences, FiniteSets, TLC

\* ------------------------------------------------------------------------
\* Bounds of the model
\* ------------------------------------------------------------------------
MaxBodyPieces == 4
MaxMarkerPieces == 5
MaxTagPieces == 3

\* ------------------------------------------------------------------------
\* Literals of the source
\* ------------------------------------------------------------------------
BodyOpen == <<"<", "b", "o", "d", "y", ">">>
BodyClose == <<"<", "/", "b", "o", "d", "y", ">">>
PreviewOpen == <<"<", "p", "r", "e", "v", "i", "e", "w", ">">>
PreviewClose == <<"<", "/", "p", "r", "e", "v", "i", "e", "w", ">">>
EncryptOpen == <<"<", "e", "n", "c", "r", "y", "p", "t", ">">>
EncryptClose == <<"<", "/", "e", "n", "c", "r", "y", "p", "t", ">">>
WrapperSlot == <<"<", "b", "o", "d", "y", ">", "\n", "\t", "{", "{", " ", ".", " ", "}", "}", "\n", "<", "/", "b", "o", "d", "y", ">">>
MainPre == <<"<", "b", "o", "d", "y", ">", "\n", "\t", "{", "{", " ", "t", "e", "m", "p", "l", "a", "t", "e", " ", "\"", "h", "e", "a", "d", "e", "r", ".", "h", "t", "m", "l", "\"", " ", ".", " ", "}", "}", "\n", "\t">>
MainPost == <<"\n", "\t", "{", "{", " ", "t", "e", "m", "p", "l", "a", "t", "e", " ", "\"", "f", "o", "o", "t", "e", "r", ".", "h", "t", "m", "l", "\"", " ", ".", " ", "}", "}", "\n", "<", "/", "b", "o", "d", "y", ">">>
TemplateOpenPre == <<"{", "{", " ", "t", "e", "m", "p", "l", "a", "t", "e", " ", "\"">>
TemplateOpenPost == <<"\"", " ">>
TemplateClose == <<" ", "}", "}">>

\* ------------------------------------------------------------------------
\* Go string primitives
\* ------------------------------------------------------------------------
\* s[a:b]
Slice(s, a, b) == SubSeq(s, a + 1, b)

\* s[i:i+len(sub)] == sub
MatchAt(s, sub, i) ==
    /\ i + Len(sub) <= Len(s)
    /\ \A k \in 1..Len(sub) : s[i + k] = sub[k]

MinOf(S) == CHOOSE m \in S : \A n \in S : m <= n

\* The first byte of sub, if it has one, is at offset i of s.
FirstMatchAt(s, sub, i) == sub = <<>> \/ s[i + 1] = sub[1]

\* strings.Index
Index(s, sub) ==
    LET hits == {i \in 0..(Len(s) - Len(sub)) :
                    FirstMatchAt(s, sub, i) /\ MatchAt(s, sub, i)}
    IN  IF hits = {} THEN -1 ELSE MinOf(hits)

\* strings.Contains
Contains(s, sub) == Index(s, sub) # -1

\* strings.ReplaceAll, for a non-empty old
RECURSIVE ReplaceAll(_, _, _)
ReplaceAll(s, old, new) ==
    LET i == Index(s, old)
    IN  IF i = -1 THEN s
        ELSE Slice(s, 0, i) \o new
             \o ReplaceAll(Slice(s, i + Len(old), Len(s)), old, new)

\* ------------------------------------------------------------------------
\* parser: body splitting (ComponentParser)
\* ------------------------------------------------------------------------
\* The loop bound of findTag is i < len(html)-len(tag).
FindTagLast(html, tag) == Len(html) - Len(tag) - 1

findTag(html, tag) ==
    LET hits == {i \in 0..FindTagLast(html, tag) :
                    FirstMatchAt(html, tag, i) /\ MatchAt(html, tag, i)}
    IN  IF hits = {} THEN -1 ELSE MinOf(hits)

\* splitHTMLBody with `&&` for `||` in the test of the two offsets: a
\* document that lacks one marker reaches the slice expressions.
splitHTMLBodyBothMissing(html) ==
    LET bodyStart == findTag(html, BodyOpen)
        bodyEnd == findTag(html, BodyClose)
    IN  IF bodyStart = -1 /\ bodyEnd = -1
        THEN [kind |-> "nil", parts |-> <<>>]
        ELSE IF bodyStart = -1 \/ bodyEnd = -1 \/ bodyStart + 6 > bodyEnd
        THEN [kind |-> "panic", parts |-> <<>>]
        ELSE [kind |-> "parts",
              parts |-> << Slice(html, 0, bodyStart),
                           Slice(html, bodyStart + 6, bodyEnd),
                           Slice(html, bodyEnd + 7, Len(html)) >>]

\* nil, the three parts, or a slice-bounds panic of html[bodyStart+6 : bodyEnd]
splitHTMLBody(html) ==
    LET bodyStart == findTag(html, BodyOpen)
        bodyEnd == findTag(html, BodyClose)
    IN  IF bodyStart = -1 \/ bodyEnd = -1
        THEN [kind |-> "nil", parts |-> <<>>]
        ELSE IF bodyStart + 6 > bodyEnd
        THEN [kind |-> "panic", parts |-> <<>>]
        ELSE [kind |-> "parts",
              parts |-> << Slice(html, 0, bodyStart),
                           Slice(html, bodyStart + 6, bodyEnd),
                           Slice(html, bodyEnd + 7, Len(html)) >>]

ErrorResult == [status |-> "error", text |-> <<>>]
PanicResult == [status |-> "panic", text |-> <<>>]
OkResult(t) == [status |-> "ok", text |-> t]

ExtractWrapper(indexHTML) ==
    LET r == splitHTMLBody(indexHTML)
    IN  IF r.kind = "panic" THEN PanicResult
        ELSE IF Len(r.parts) # 3 THEN ErrorResult
        ELSE OkResult(r.parts[1] \o WrapperSlot \o r.parts[3])

ExtractMain(indexHTML) ==
    LET r == splitHTMLBody(indexHTML)
    IN  IF r.kind = "panic" THEN PanicResult
        ELSE IF Len(r.parts) # 3 THEN ErrorResult
        ELSE OkResult(r.parts[1] \o MainPre \o r.parts[2] \o MainPost \o r.parts[3])

WrapPageWithHeaderFooter(pageHTML) ==
    LET r == splitHTMLBody(pageHTML)
    IN  IF r.kind = "panic" THEN PanicResult
        ELSE IF Len(r.parts) # 3 THEN ErrorResult
        ELSE OkResult(r.parts[1] \o MainPre \o r.parts[2] \o MainPost \o r.parts[3])

\* ------------------------------------------------------------------------
\* parser: tag rewriting (TagReplacer)
\* ------------------------------------------------------------------------
OpenTag(name) == <<"<">> \o name \o <<">">>
CloseTag(name) == <<"<", "/">> \o name \o <<">">>
TemplateOpen(name) == TemplateOpenPre \o name \o TemplateOpenPost

RECURSIVE RemovePreviewTags(_)
RemovePreviewTags(templateContent) ==
    LET start == Index(templateContent, PreviewOpen)
        rest == Slice(templateContent, start, Len(templateContent))
        end == Index(rest, PreviewClose)
    IN  IF start = -1 THEN templateContent
        ELSE IF end = -1 THEN templateContent
        ELSE RemovePreviewTags(
                 Slice(templateContent, 0, start)
                 \o Slice(templateContent, start + end + Len(PreviewClose),
                          Len(templateContent)))

RECURSIVE RemoveEncryptTags(_)
RemoveEncryptTags(content) ==
    LET start == Index(content, EncryptOpen)
        rest == Slice(content, start, Len(content))
        end == Index(rest, EncryptClose)
    IN  IF start = -1 THEN content
        ELSE IF end = -1 THEN content
        ELSE RemoveEncryptTags(
                 Slice(content, 0, start)
                 \o Slice(content, start + end + Len(EncryptClose),
                          Len(content)))

\* ReplaceOneName leaving alone a text that holds a template call already
ReplaceOneNameUnlessRewritten(result, name) ==
    IF ~Contains(result, OpenTag(name)) \/ Contains(result, TemplateOpenPre)
    THEN result
    ELSE ReplaceAll(ReplaceAll(result, OpenTag(name), TemplateOpen(name)),
                    CloseTag(name), TemplateClose)

\* One iteration of the loop over the component map.
ReplaceOneName(result, name) ==
    IF ~Contains(result, OpenTag(name))
    THEN result
    ELSE ReplaceAll(ReplaceAll(result, OpenTag(name), TemplateOpen(name)),
                    CloseTag(name), TemplateClose)

\* The loop over the component map, in the iteration order `order`.
RECURSIVE ReplaceNames(_, _)
ReplaceNames(result, order) ==
    IF order = <<>> THEN result
    ELSE ReplaceNames(ReplaceOneName(result, Head(order)), Tail(order))

ReplaceComponentTags(templateContent, order) ==
    RemoveEncryptTags(RemovePreviewTags(ReplaceNames(templateContent, order)))

\* The iteration orders of a Go map with the keys S
Orders(S) ==
    {o \in [1..Cardinality(S) -> S] : \A i, j \in 1..Cardinality(S) : o[i] = o[j] => i = j}

\* ------------------------------------------------------------------------
\* Inputs of the composer: texts built from the tokens the code searches for
\* ------------------------------------------------------------------------
NameCard == <<"c", "a", "r", "d">>
NameNav == <<"n", "a", "v">>
Names == {NameCard, NameNav}

PreviewOpenL == <<"<", "p", "r", "e", "v">>
PreviewOpenR == <<"i", "e", "w", ">">>

BodyPieces == {BodyOpen, BodyClose, <<"x">>}
MarkerPieces == {PreviewOpen, PreviewClose, EncryptOpen, EncryptClose,
                 PreviewOpenL, PreviewOpenR}
TagPieces == {OpenTag(NameCard), CloseTag(NameCard),
              OpenTag(NameNav), CloseTag(NameNav), <<"x">>}

RECURSIVE Flatten(_)
Flatten(q) == IF q = <<>> THEN <<>> ELSE Head(q) \o Flatten(Tail(q))

\* The texts made of at most n pieces of P
Docs(P, n) == UNION {{Flatten(q) : q \in [1..k -> P]} : k \in 0..n}

TextInputs(bodyPieces, markerPieces, tagPieces) ==
    Docs(BodyPieces, bodyPieces)
    \cup Docs(MarkerPieces, markerPieces)
    \cup Docs(TagPieces, tagPieces)

\* Number of occurrences of sub in s
Occurrences(s, sub) ==
    Cardinality({i \in 0..(Len(s) - Len(sub)) : MatchAt(s, sub, i)})

\* s contains open ... close
HasSpan(s, open, close) ==
    \E i \in 0..(Len(s) - Len(open)) :
        /\ MatchAt(s, open, i)
        /\ \E j \in (i + Len(open))..(Len(s) - Len(close)) : MatchAt(s, close, j)

\* ------------------------------------------------------------------------
\* State
\* ------------------------------------------------------------------------
VARIABLES
    \* -- a composer function applied to a text
    doc,        \* the text handed to a composer function
    textOp,     \* the composer function that was called on doc ("none" before)
    textOrder,  \* iteration order of the component map in that call
    textDepth,  \* the depth argument of that call (0 when it takes none)
    textPath,   \* the OutputPath of the page of that call (<<>> when it has none)
    ctxData,    \* the data of the SimpleDataContext of that call (<<>> when none)
    textKey,    \* the passphrase of that call (<<>> when it takes none)
    textOut,    \* what the call returned
    \* -- the files of the site root, as the loader returns them (empty until read)
    fsIndex,       \* index.html
    fsHeader,      \* templates["header.html"] ("" when the file is absent)
    fsFooter,      \* templates["footer.html"] ("" when the file is absent)
    fsPages,       \* the page files: SourcePath, OutputPath, Content
    fsComponents,  \* component name -> text of components/<name>.html
    \* -- site.Site and generator.Site
    siteLoaded,                  \* s.site # nil
    components,                  \* name -> Template, DataPath, Dependencies
    pages,                       \* the loaded pages
    originalComponentTemplates,
    originalPageContent,
    originalMainContent,
    wrapperContent,
    mainTemplateContent,
    headerContent,
    footerContent,
    \* -- findUsedComponents
    used,       \* the map `used`
    changed,    \* the flag of the fixed-point loop
    passStart,  \* keys of `used` when the current range loop started
    visited,    \* keys the current range loop has produced
    passes,     \* range loops completed
    \* -- one build cycle (Orchestrator.RunOnce)
    pc,          \* the statement RunOnce is at
    ranSteps,    \* the steps of Load and Generate executed in this cycle
    failedStep,  \* the step that returned an error ("none" if none did)
    runErr,      \* RunOnce returned a non-nil error
    log,         \* the log lines that matter
    unusedReport, \* the names listed by reportUnusedComponents
    written,     \* the set of artifacts present below ./www
    \* -- watch mode (Orchestrator.RunContinuous, FileWatcher.Watch)
    pcMain,          \* where the goroutine of RunContinuous is
    running,         \* RunOnce calls in flight
    sigPending,      \* a signal waits in sigChan
    stopClosed,      \* stopChan has been closed
    watcherErrChan,  \* buffered channel of Watch's result
    regenerateChan,  \* buffered channel of changed paths
    pcWatcher,       \* where the goroutine of Watch is
    events,          \* Write/Create events delivered so far
    pendingChanges,  \* keys of the map w.pendingChanges
    debounceTimer,   \* state of w.debounceTimer
    fires,           \* expiries of the debounce timer so far
    callbacks,       \* the timer callbacks that are executing
    rebuildsOf,      \* rebuilds started per debounced burst
    owed             \* history: the paths of events not given to onChange since,
                     \* and whether no rebuild has started since the last event

textVars == <<doc, textOp, textOrder, textDepth, textPath, ctxData, textKey, textOut>>
fsVars == <<fsIndex, fsHeader, fsFooter, fsPages, fsComponents>>
siteVars == <<siteLoaded, components, pages, originalComponentTemplates,
              originalPageContent, originalMainContent, wrapperContent,
              mainTemplateContent, headerContent, footerContent>>
usedVars == <<used, changed, passStart, visited, passes>>
runVars == <<pc, ranSteps, failedStep, runErr, log, unusedReport, written>>
buildVars == <<fsVars, siteVars, usedVars, runVars>>
watchVars == <<pcMain, running, sigPending, stopClosed, watcherErrChan,
               regenerateChan, pcWatcher, events, pendingChanges,
               debounceTimer, fires, callbacks, rebuildsOf, owed>>
nonTextVars == <<buildVars, watchVars>>
nonBuildVars == <<textVars, watchVars>>
nonWatchVars == <<textVars, buildVars>>
vars == <<textVars, buildVars, watchVars>>

\* ------------------------------------------------------------------------
\* The composer functions, each applied to an input text
\* ------------------------------------------------------------------------
TextIdle ==
    /\ doc = <<>>
    /\ textOp = "none"
    /\ textOrder = <<>>
    /\ textDepth = 0
    /\ textPath = <<>>
    /\ ctxData = <<>>
    /\ textKey = <<>>
    /\ textOut = OkResult(<<>>)

TextInit ==
    /\ doc \in TextInputs(MaxBodyPieces, MaxMarkerPieces, MaxTagPieces)
    /\ textOp = "none"
    /\ textOrder = <<>>
    /\ textDepth = 0
    /\ textPath = <<>>
    /\ ctxData = <<>>
    /\ textKey = <<>>
    /\ textOut = OkResult(<<>>)

TextCall(op, order, out) ==
    /\ textOp = "none"
    /\ textOp' = op
    /\ textOrder' = order
    /\ textOut' = out
    /\ UNCHANGED <<doc, textDepth, textPath, ctxData, textKey, nonTextVars>>

CallExtractWrapper == TextCall("ExtractWrapper", <<>>, ExtractWrapper(doc))

CallExtractMain == TextCall("ExtractMain", <<>>, ExtractMain(doc))

CallWrapPageWithHeaderFooter ==
    TextCall("WrapPageWithHeaderFooter", <<>>, WrapPageWithHeaderFooter(doc))

CallReplaceComponentTags ==
    \E order \in Orders(Names) :
        TextCall("ReplaceComponentTags", order,
                 OkResult(ReplaceComponentTags(doc, order)))

CallRemovePreviewTags ==
    TextCall("RemovePreviewTags", <<>>, OkResult(RemovePreviewTags(doc)))

CallRemoveEncryptTags ==
    TextCall("RemoveEncryptTags", <<>>, OkResult(RemoveEncryptTags(doc)))

TextNext ==
    \/ CallExtractWrapper
    \/ CallExtractMain
    \/ CallWrapPageWithHeaderFooter
    \/ CallReplaceComponentTags
    \/ CallRemovePreviewTags
    \/ CallRemoveEncryptTags

\* ------------------------------------------------------------------------
\* ReplaceComponentTags over component maps with different keys
\* ------------------------------------------------------------------------
\* A component is named by its file name without `.html`; the files
\* `b.html` and `a><b.html` give the names b and a><b
NameInner == <<"b">>
NameOuter == <<"a", ">", "<", "b">>

ComponentSets == {{NameCard, NameNav}, {NameInner, NameOuter}}

MaxTaggedPieces == 3

TaggedPieces ==
    {OpenTag(NameCard), CloseTag(NameCard), OpenTag(NameNav), CloseTag(NameNav),
     OpenTag(NameOuter), CloseTag(NameInner)}

TaggedTexts(n) == Docs(TaggedPieces, n)

TagsInit ==
    /\ doc \in TaggedTexts(MaxTaggedPieces)
    /\ textOp = "none"
    /\ textOrder = <<>>
    /\ textDepth = 0
    /\ textPath = <<>>
    /\ ctxData = <<>>
    /\ textKey = <<>>
    /\ textOut = OkResult(<<>>)

\* ReplaceComponentTags with one of the component maps, ranged over in one
\* of its orders
ReplaceTagsOfComponents ==
    \E names \in ComponentSets :
        \E order \in Orders(names) :
            TextCall("ReplaceComponentTags", order,
                     OkResult(ReplaceComponentTags(doc, order)))

TagsNext == ReplaceTagsOfComponents

\* ------------------------------------------------------------------------
\* utils.ExtractTemplatesAndBody and TagReplacer.ExtractEncryptKey
\* ------------------------------------------------------------------------
IsSpace(c) == c \in {" ", "\n", "\t", "\r"}

RECURSIVE TrimLeft(_)
TrimLeft(s) == IF s # <<>> /\ IsSpace(Head(s)) THEN TrimLeft(Tail(s)) ELSE s

RECURSIVE TrimRight(_)
TrimRight(s) ==
    IF s # <<>> /\ IsSpace(s[Len(s)]) THEN TrimRight(SubSeq(s, 1, Len(s) - 1)) ELSE s

\* strings.TrimSpace
TrimSpace(s) == TrimRight(TrimLeft(s))

\* strings.HasPrefix
HasPrefix(s, prefix) == MatchAt(s, prefix, 0)

\* The file is given by its text; the read error is injected by the caller.
ExtractTemplatesAndBody(content) ==
    LET previewStart == Index(content, PreviewOpen)
        previewEnd == Index(Slice(content, previewStart, Len(content)), PreviewClose)
        trimmed == TrimSpace(Slice(content, previewStart + 9, previewStart + previewEnd))
        dataPath == IF previewStart = -1 THEN <<>>
                    ELSE IF previewEnd = -1 THEN <<>>
                    ELSE IF trimmed # <<>> /\ ~HasPrefix(trimmed, <<".">>)
                    THEN <<".">> \o trimmed
                    ELSE trimmed
        bodyStart == Index(content, BodyOpen)
        bodyEnd == Index(content, BodyClose)
    IN  IF bodyStart = -1 \/ bodyEnd = -1
        THEN [status |-> "error", dataPath |-> <<>>, body |-> <<>>]
        ELSE IF bodyStart + 6 > bodyEnd
        THEN [status |-> "panic", dataPath |-> <<>>, body |-> <<>>]
        ELSE [status |-> "ok", dataPath |-> dataPath,
              body |-> Slice(content, bodyStart + 6, bodyEnd)]

ExtractEncryptKey(content) ==
    LET start == Index(content, EncryptOpen)
        end == Index(Slice(content, start, Len(content)), EncryptClose)
    IN  IF start = -1 THEN <<>>
        ELSE IF end = -1 THEN <<>>
        ELSE TrimSpace(Slice(content, start + Len(EncryptOpen), start + end))

\* TagReplacer.ExtractComponentDependencies, as a set
ExtractComponentDependencies(templateContent, names) ==
    {n \in names : Contains(templateContent, OpenTag(n))}

\* Site.isComponentUsedInContent
isComponentUsedInContent(componentName, content) ==
    Contains(content, OpenTag(componentName))

\* ------------------------------------------------------------------------
\* ExtractTemplatesAndBody applied to a component file
\* ------------------------------------------------------------------------
MaxFilePieces == 4

\* <preview>X</preview>
PreviewSpan(x) == PreviewOpen \o x \o PreviewClose

FilePieces ==
    {PreviewSpan(<<>>), PreviewSpan(<<"d">>), PreviewSpan(<<".", "e">>),
     PreviewOpen, PreviewClose, BodyOpen, BodyClose, <<"x">>}

FileInputs(n) == Docs(FilePieces, n)

FileInit ==
    /\ doc \in FileInputs(MaxFilePieces)
    /\ textOp = "none"
    /\ textOrder = <<>>
    /\ textDepth = 0
    /\ textPath = <<>>
    /\ ctxData = <<>>
    /\ textKey = <<>>
    /\ textOut = OkResult(<<>>)

\* os.ReadFile fails, or the text of the file is parsed
CallExtractTemplatesAndBody ==
    \E readErr \in BOOLEAN :
        TextCall("ExtractTemplatesAndBody", <<>>,
                 IF readErr
                 THEN [status |-> "error", dataPath |-> <<>>, body |-> <<>>]
                 ELSE ExtractTemplatesAndBody(doc))

FileNext == CallExtractTemplatesAndBody

\* ------------------------------------------------------------------------
\* generator: path_adjuster.go
\* ------------------------------------------------------------------------
HrefAttr == <<"h", "r", "e", "f", "=", "\"">>
SrcAttr == <<"s", "r", "c", "=", "\"">>
LinkWord == <<"l", "i", "n", "k">>
AWord == <<"a">>
UpSegment == <<".", ".", "/">>

\* [a-zA-Z]
Letters ==
    {"a", "b", "c", "d", "e", "f", "g", "h", "i", "j", "k", "l", "m", "n", "o", "p", "q", "r", "s", "t", "u", "v", "w", "x", "y", "z"}
    \cup {"A", "B", "C", "D", "E", "F", "G", "H", "I", "J", "K", "L", "M", "N", "O", "P", "Q", "R", "S", "T", "U", "V", "W", "X", "Y", "Z"}

IsLetter(c) == c \in Letters

\* strings.Repeat
RECURSIVE Repeat(_, _)
Repeat(seg, n) == IF n <= 0 THEN <<>> ELSE seg \o Repeat(seg, n - 1)

NoMatch == [value |-> -1, end |-> -1]

\* ValueEnd with [^":] for [a-zA-Z] as the first character class: a value
\* that begins with `/` or `.` also matches.
ValueEndAnyFirst(s, v) ==
    IF v >= Len(s) THEN -1
    ELSE IF s[v + 1] \in {"\"", ":"} THEN -1
    ELSE LET stops == {k \in (v + 1)..(Len(s) - 1) : s[k + 1] \in {"\"", ":"}}
         IN  IF stops = {} THEN -1
             ELSE IF s[MinOf(stops) + 1] = "\"" THEN MinOf(stops)
             ELSE -1

\* ([a-zA-Z][^":]*?)(") at offset v: the offset of the closing quote, or -1
ValueEnd(s, v) ==
    IF v >= Len(s) THEN -1
    ELSE IF ~IsLetter(s[v + 1]) THEN -1
    ELSE LET stops == {k \in (v + 1)..(Len(s) - 1) : s[k + 1] \in {"\"", ":"}}
         IN  IF stops = {} THEN -1
             ELSE IF s[MinOf(stops) + 1] = "\"" THEN MinOf(stops)
             ELSE -1

\* (src=")([a-zA-Z][^":]*?)(") matched at offset i
SrcMatchAt(s, i) ==
    IF MatchAt(s, SrcAttr, i) /\ ValueEnd(s, i + Len(SrcAttr)) # -1
    THEN [value |-> i + Len(SrcAttr), end |-> ValueEnd(s, i + Len(SrcAttr)) + 1]
    ELSE NoMatch

\* ((?:link|a)[^>]*href=")([a-zA-Z][^":]*?)(") matched at offset i: [^>]* is
\* greedy, so the last href=" of the tag that completes the match is taken.
HrefMatchAt(s, i) ==
    LET word == IF MatchAt(s, LinkWord, i) THEN Len(LinkWord)
                ELSE IF MatchAt(s, AWord, i) THEN Len(AWord)
                ELSE 0
        attrs == {j \in (i + word)..(Len(s) - Len(HrefAttr)) :
                     /\ MatchAt(s, HrefAttr, j)
                     /\ \A k \in (i + word)..(j - 1) : s[k + 1] # ">"
                     /\ ValueEnd(s, j + Len(HrefAttr)) # -1}
        last == CHOOSE j \in attrs : \A k \in attrs : k <= j
    IN  IF word = 0 \/ attrs = {} THEN NoMatch
        ELSE [value |-> last + Len(HrefAttr),
              end |-> ValueEnd(s, last + Len(HrefAttr)) + 1]

PatternMatchAt(pattern, s, i) ==
    IF pattern = "href" THEN HrefMatchAt(s, i) ELSE SrcMatchAt(s, i)

\* Regexp.ReplaceAllString(s, `${1}`+prefix+`${2}${3}`) from offset i on: the
\* leftmost match is replaced and the search goes on after it.
RECURSIVE ReplaceAllString(_, _, _, _)
ReplaceAllString(pattern, s, i, prefix) ==
    IF i >= Len(s) THEN <<>>
    ELSE LET m == PatternMatchAt(pattern, s, i)
         IN  IF m.end = -1
             THEN <<s[i + 1]>> \o ReplaceAllString(pattern, s, i + 1, prefix)
             ELSE Slice(s, i, m.value) \o prefix \o Slice(s, m.value, m.end)
                  \o ReplaceAllString(pattern, s, m.end, prefix)

\* AdjustPathsForPreview with `../` for `../../` in the two replacements
AdjustPathsForPreviewOneUp(html) ==
    ReplaceAllString("src", ReplaceAllString("href", html, 0, UpSegment),
                     0, UpSegment)

AdjustPathsForPreview(html) ==
    ReplaceAllString("src",
                     ReplaceAllString("href", html, 0, UpSegment \o UpSegment),
                     0, UpSegment \o UpSegment)

AdjustPathsForDepth(html, depth) ==
    IF depth = 0 THEN html
    ELSE ReplaceAllString("src",
                          ReplaceAllString("href", html, 0, Repeat(UpSegment, depth)),
                          0, Repeat(UpSegment, depth))

\* ------------------------------------------------------------------------
\* The path adjuster applied to a rendered text
\* ------------------------------------------------------------------------
MaxPathPieces == 3
MaxDepth == 2

\* relative, absolute, upward and URL attribute values
PathValues == {<<"p">>, <<"/", "p">>, <<".", ".", "/", "p">>, <<"s", ":", "/", "/", "p">>}

\* ` name="value"`
Attr(name, value) == <<" ">> \o name \o value \o <<"\"">>

PathPieces ==
    {<<"<", "a">>, <<"<", "u", "s", "e">>, <<">">>}
    \cup {Attr(name, value) : name \in {HrefAttr, SrcAttr}, value \in PathValues}

PathInputs(n) == Docs(PathPieces, n)

PathInit ==
    /\ doc \in PathInputs(MaxPathPieces)
    /\ textOp = "none"
    /\ textOrder = <<>>
    /\ textDepth = 0
    /\ textPath = <<>>
    /\ ctxData = <<>>
    /\ textKey = <<>>
    /\ textOut = OkResult(<<>>)

PathCall(op, depth, out) ==
    /\ textOp = "none"
    /\ textOp' = op
    /\ textDepth' = depth
    /\ textOut' = OkResult(out)
    /\ UNCHANGED <<doc, textOrder, textPath, ctxData, textKey, nonTextVars>>

CallAdjustPathsForDepth ==
    \E depth \in 0..MaxDepth :
        PathCall("AdjustPathsForDepth", depth, AdjustPathsForDepth(doc, depth))

CallAdjustPathsForPreview ==
    PathCall("AdjustPathsForPreview", 0, AdjustPathsForPreview(doc))

PathNext == CallAdjustPathsForDepth \/ CallAdjustPathsForPreview

\* ------------------------------------------------------------------------
\* The generators from the rendered text to the written file
\* ------------------------------------------------------------------------
\* strings.Split(content, "\n")
RECURSIVE SplitLines(_)
SplitLines(content) ==
    LET i == Index(content, <<"\n">>)
    IN  IF i = -1 THEN <<content>>
        ELSE <<Slice(content, 0, i)>> \o SplitLines(Slice(content, i + 1, Len(content)))

\* strings.Join(result, "\n")
RECURSIVE JoinLines(_)
JoinLines(result) ==
    IF result = <<>> THEN <<>>
    ELSE IF Len(result) = 1 THEN result[1]
    ELSE result[1] \o <<"\n">> \o JoinLines(Tail(result))

\* utils.CleanupWhitespace
CleanupWhitespace(content) ==
    JoinLines(SelectSeq(SplitLines(content), LAMBDA line : TrimSpace(line) # <<>>))

\* A path is the sequence of its elements
IndexFile == <<"i", "n", "d", "e", "x", ".", "h", "t", "m", "l">>
HtmlSuffix == <<".", "h", "t", "m", "l">>

\* filepath.Dir of a relative path: <<>> stands for "."
Dir(path) == SubSeq(path, 1, Len(path) - 1)

\* filepath.Base
Base(path) == path[Len(path)]

\* the path as the string the functions of filepath see
RECURSIVE PathString(_)
PathString(path) ==
    IF path = <<>> THEN <<".">>
    ELSE IF Len(path) = 1 THEN path[1]
    ELSE path[1] \o <<"/">> \o PathString(Tail(path))

Count(s, c) == Cardinality({i \in 1..Len(s) : s[i] = c})

\* len(filepath.SplitList(dir)): the elements of a search-path list, which
\* the list separator `:` separates
SplitListLen(dir) == IF dir = <<>> THEN 0 ELSE Count(dir, ":") + 1

\* the depth generatePage computes from page.OutputPath
PageDepth(OutputPath) ==
    IF Dir(OutputPath) = <<>> THEN 0
    ELSE IF SplitListLen(PathString(Dir(OutputPath))) # 0
    THEN SplitListLen(PathString(Dir(OutputPath)))
    ELSE Count(PathString(Dir(OutputPath)), "/")

\* the file name generatePagePreview gives the preview of a page
PreviewName(OutputPath) ==
    IF Base(OutputPath) = IndexFile
    THEN (IF Dir(OutputPath) = <<>> THEN <<".">> ELSE Base(Dir(OutputPath))) \o HtmlSuffix
    ELSE Base(OutputPath)

MaxRenderPieces == 3

RenderPieces ==
    {<<"<", "a", " ", "h", "r", "e", "f", "=", "\"", "p", "\"", ">">>, <<"<", "i", "m", "g", " ", "s", "r", "c", "=", "\"", "p", "\"", ">">>, <<"<", "i", "m", "g", " ", "s", "r", "c", "=", "\"", "/", "p", "\"", ">">>,
     <<"<", "a", " ", "h", "r", "e", "f", "=", "\"", "s", ":", "/", "/", "p", "\"", ">">>,
     <<"\n">>, <<" ">>, <<"x">>}

\* what executing a template leaves in the buffer
RenderedTexts(n) == Docs(RenderPieces, n)

\* the output paths LoadPages gives pages: a root-level file, index.html one
\* and two directories down, and a directory whose name holds the separator
\* of search-path lists
OutputPaths ==
    {<<<<"p", ".", "h", "t", "m", "l">>>>,
     <<<<"a">>, IndexFile>>,
     <<<<"a">>, <<"b">>, IndexFile>>,
     <<<<"c", ":", "d">>, IndexFile>>}

ComponentFile == <<"c", "a", "r", "d", ".", "h", "t", "m", "l">>

RenderInit ==
    /\ doc \in RenderedTexts(MaxRenderPieces)
    /\ textOp = "none"
    /\ textOrder = <<>>
    /\ textDepth = 0
    /\ textPath = <<>>
    /\ ctxData = <<>>
    /\ textKey = <<>>
    /\ textOut = OkResult(<<>>)

Failed == [status |-> "error", file |-> <<>>, text |-> <<>>]
Wrote(file, text) == [status |-> "ok", file |-> file, text |-> text]

\* a generator function is called on a page whose template renders to doc;
\* parsing, executing, MkdirAll or WriteFile may fail
RenderCall(op, path, out) ==
    /\ textOp = "none"
    /\ textOp' = op
    /\ textPath' = path
    /\ \E failed \in BOOLEAN : textOut' = IF failed THEN Failed ELSE out
    /\ UNCHANGED <<doc, textOrder, textDepth, ctxData, textKey, nonTextVars>>

\* MainSiteGenerator.GenerateMainSite
GenerateMainSiteFile ==
    RenderCall("GenerateMainSite", <<>>,
               Wrote(<<IndexFile>>, CleanupWhitespace(doc)))

\* MainSiteGenerator.generatePage
generatePage ==
    \E OutputPath \in OutputPaths :
        RenderCall("generatePage", OutputPath,
                   Wrote(OutputPath,
                         IF PageDepth(OutputPath) > 0
                         THEN AdjustPathsForDepth(CleanupWhitespace(doc),
                                                  PageDepth(OutputPath))
                         ELSE CleanupWhitespace(doc)))

\* MainSiteGenerator.GenerateMainSitePreview
GenerateMainSitePreview ==
    RenderCall("GenerateMainSitePreview", <<>>,
               Wrote(<<IndexFile>>, AdjustPathsForPreview(CleanupWhitespace(doc))))

\* MainSiteGenerator.generatePagePreview
generatePagePreview ==
    \E OutputPath \in OutputPaths :
        RenderCall("generatePagePreview", OutputPath,
                   Wrote(<<PreviewName(OutputPath)>>,
                         AdjustPathsForPreview(CleanupWhitespace(doc))))

\* ComponentGenerator.generateComponentPreview
generateComponentPreview ==
    RenderCall("generateComponentPreview", <<>>,
               Wrote(<<ComponentFile>>, CleanupWhitespace(AdjustPathsForPreview(doc))))

RenderNext ==
    \/ GenerateMainSiteFile
    \/ generatePage
    \/ GenerateMainSitePreview
    \/ generatePagePreview
    \/ generateComponentPreview
    \/ CallAdjustPathsForPreview

\* ------------------------------------------------------------------------
\* The files one build writes below ./www
\* ------------------------------------------------------------------------
WordPreview == <<"p", "r", "e", "v", "i", "e", "w">>
WordIndex == <<"i", "n", "d", "e", "x">>
CardFile == <<"c", "a", "r", "d", ".", "h", "t", "m", "l">>

\* previewDir := "./www/preview", below ./www
previewDir == <<WordPreview>>

MaxSitePages == 2

\* The component names and the OutputPaths LoadComponents and LoadPages can
\* return for files `components/card.html`, `components/index.html`,
\* `card.html`, `a/b/index.html`, `c/b/index.html`, `preview/index.html`
ArtifactComponents == {<<"c", "a", "r", "d">>, WordIndex}
ArtifactPages ==
    {<<CardFile>>,
     <<<<"a">>, <<"b">>, IndexFile>>,
     <<<<"c">>, <<"b">>, IndexFile>>,
     <<WordPreview, IndexFile>>}

Sites(n) ==
    {[Components |-> c, Pages |-> g] :
        c \in SUBSET ArtifactComponents,
        g \in {g \in SUBSET ArtifactPages : Cardinality(g) <= n}}

\* doc stays empty; ctxData is the site and textOut the files written so far
ArtifactsInit ==
    /\ doc = <<>>
    /\ textOp = "none"
    /\ textOrder = <<>>
    /\ textDepth = 0
    /\ textPath = <<>>
    /\ ctxData \in Sites(MaxSitePages)
    /\ textKey = <<>>
    /\ textOut = [writes |-> {}]

\* os.WriteFile(file, ...) for the artifact `kind` of `id`, once per build
WriteArtifact(op, kind, id, file) ==
    /\ \A w \in textOut.writes : ~(w.kind = kind /\ w.id = id)
    /\ textOp' = op
    /\ textOut' = [writes |-> textOut.writes \cup {[kind |-> kind, id |-> id, file |-> file]}]
    /\ UNCHANGED <<doc, textOrder, textDepth, textPath, ctxData, textKey, nonTextVars>>

\* generateComponentPreview, lines 98-102, with outputDir = previewDir
WriteComponentPreview ==
    \E name \in ctxData.Components :
        WriteArtifact("generateComponentPreview", "component-preview", name,
                      previewDir \o <<name \o HtmlSuffix>>)

\* GenerateMainSiteFile, lines 90-93
WriteMainSite ==
    WriteArtifact("GenerateMainSiteFile", "main", <<>>, <<IndexFile>>)

\* generatePage, lines 191-200
WritePage ==
    \E OutputPath \in ctxData.Pages :
        WriteArtifact("generatePage", "page", OutputPath, OutputPath)

\* GenerateMainSitePreview, lines 255-258
WriteMainSitePreview ==
    WriteArtifact("GenerateMainSitePreview", "main-preview", <<>>,
                  previewDir \o <<IndexFile>>)

\* generatePagePreview, lines 343-354
WritePagePreview ==
    \E OutputPath \in ctxData.Pages :
        WriteArtifact("generatePagePreview", "page-preview", OutputPath,
                      previewDir \o <<PreviewName(OutputPath)>>)

ArtifactsNext ==
    \/ WriteComponentPreview
    \/ WriteMainSite
    \/ WritePage
    \/ WriteMainSitePreview
    \/ WritePagePreview

\* ------------------------------------------------------------------------
\* generator: SimpleDataContext
\* ------------------------------------------------------------------------
\* The values of a data tree: map[string]interface{}, a list, a scalar
MapNode(entries) == [kind |-> "map", entries |-> entries]
ListNode == [kind |-> "list"]
ScalarNode(v) == [kind |-> "scalar", v |-> v]
NilValue == [kind |-> "nil"]

NoError == [Path |-> <<>>, Part |-> <<>>, set |-> FALSE]

\* &DataPathError{Path: path, Part: part}
DataPathError(path, part) == [Path |-> path, Part |-> part, set |-> TRUE]

\* splitPath after the characters of `rest`, with `current` and `parts` so far
RECURSIVE splitPathFrom(_, _, _)
splitPathFrom(rest, current, parts) ==
    IF rest = <<>>
    THEN (IF current # <<>> THEN Append(parts, current) ELSE parts)
    ELSE IF Head(rest) = "."
    THEN splitPathFrom(Tail(rest), <<>>,
                       IF current # <<>> THEN Append(parts, current) ELSE parts)
    ELSE splitPathFrom(Tail(rest), Append(current, Head(rest)), parts)

splitPath(path) ==
    IF path = <<>> \/ path = <<".">> THEN <<>>
    ELSE splitPathFrom(path, <<>>, <<>>)

\* the loop of Get from parts[i] on
RECURSIVE GetFrom(_, _, _, _)
GetFrom(path, parts, i, current) ==
    IF i > Len(parts) THEN [value |-> current, err |-> NoError]
    ELSE IF parts[i] = <<>> THEN GetFrom(path, parts, i + 1, current)
    ELSE IF current.kind # "map"
    THEN [value |-> NilValue, err |-> DataPathError(path, parts[i])]
    ELSE IF parts[i] \notin DOMAIN current.entries
    THEN [value |-> NilValue, err |-> DataPathError(path, parts[i])]
    ELSE GetFrom(path, parts, i + 1, current.entries[parts[i]])

\* Get with the last part of the path as the Part of its errors
GetNamesLastPart(data, path) ==
    IF path = <<>> \/ path = <<".">> THEN [value |-> data, err |-> NoError]
    ELSE LET r == GetFrom(path, splitPath(path), 1, data)
         IN  IF r.err.set
             THEN [value |-> NilValue,
                   err |-> DataPathError(path, splitPath(path)[Len(splitPath(path))])]
             ELSE r

\* SimpleDataContext.Get
Get(data, path) ==
    IF path = <<>> \/ path = <<".">> THEN [value |-> data, err |-> NoError]
    ELSE GetFrom(path, splitPath(path), 1, data)

\* ------------------------------------------------------------------------
\* Get applied to a data tree and a data path
\* ------------------------------------------------------------------------
MaxPathParts == 3

KeyProjects == <<"p", "r", "o", "j", "e", "c", "t", "s">>
KeyFeatured == <<"F", "e", "a", "t", "u", "r", "e", "d">>
KeyTitle == <<"T", "i", "t", "l", "e">>

\* the maps with some of the keys, each bound to one of the values
MapsOver(keys, values) ==
    {MapNode(entries) : entries \in UNION {[d -> values] : d \in SUBSET keys}}

TitleValues == {ScalarNode("Acme"), ListNode}
FeaturedValues == TitleValues \cup MapsOver({KeyTitle}, TitleValues)
ProjectsValues == FeaturedValues \cup MapsOver({KeyFeatured}, FeaturedValues)

\* what LoadData returns: a map from file names to the trees of the files
DataTrees == MapsOver({KeyProjects, KeyFeatured}, ProjectsValues)

\* `.`, `.projects`, `.Featured`, `.Title`
DataPathPieces ==
    {<<".">>} \cup {<<".">> \o key : key \in {KeyProjects, KeyFeatured, KeyTitle}}

DataPaths(n) == Docs(DataPathPieces, n)

DataInit ==
    /\ doc \in DataPaths(MaxPathParts)
    /\ textOp = "none"
    /\ textOrder = <<>>
    /\ textDepth = 0
    /\ textPath = <<>>
    /\ ctxData = <<>>
    /\ textKey = <<>>
    /\ textOut = OkResult(<<>>)

CallGet ==
    /\ textOp = "none"
    /\ textOp' = "Get"
    /\ \E data \in DataTrees :
           /\ ctxData' = data
           /\ textOut' = Get(data, doc)
    /\ UNCHANGED <<doc, textOrder, textDepth, textPath, textKey, nonTextVars>>

DataNext == CallGet

\* ------------------------------------------------------------------------
\* encrypt: Encrypt
\* ------------------------------------------------------------------------
saltSize == 16
ivSize == 12
keySize == 32
iterations == 100000
gcmTagSize == 16

\* a byte slice: nil, or its bytes
NilBytes == [nil |-> TRUE, bytes |-> <<>>]
Bytes(b) == [nil |-> FALSE, bytes |-> b]

\* make([]byte, n) after a rand.Read that gave every byte the value fill
Filled(n, fill) == Bytes([i \in 1..n |-> fill])

\* pbkdf2(password, salt, iter, keyLen): the derived key, by what it is derived from
pbkdf2(password, salt, iter, keyLen) ==
    [password |-> password, salt |-> salt, iter |-> iter, len |-> keyLen]

\* gcm.Seal(nil, iv, plaintext, nil): the ciphertext with the tag appended, by
\* what it seals
Seal(key, iv, plaintext) ==
    [nil |-> FALSE, key |-> key, iv |-> iv, plaintext |-> plaintext,
     len |-> Len(plaintext) + gcmTagSize]

\* what Encrypt returns, with the calls it made: the results of its reads of
\* crypto/rand in order, and whether it derived a key and sealed
EncryptResult(salt, iv, ciphertext, err, reads, derived, sealed) ==
    [salt |-> salt, iv |-> iv, ciphertext |-> ciphertext, err |-> err,
     reads |-> reads, derived |-> derived, sealed |-> sealed]

\* Encrypt that goes on with the zeroed buffer when a read of crypto/rand fails
EncryptKeepsZeroedBuffer(plaintext, passphrase, rnd) ==
    LET salt == Filled(saltSize, IF rnd.saltOk THEN rnd.saltFill ELSE 0)
        iv == Filled(ivSize, IF rnd.ivOk THEN rnd.ivFill ELSE 0)
        key == pbkdf2(passphrase, salt.bytes, iterations, keySize)
    IN  EncryptResult(salt, iv, Seal(key, iv.bytes, plaintext), "nil",
                      <<IF rnd.saltOk THEN "ok" ELSE "failed",
                        IF rnd.ivOk THEN "ok" ELSE "failed">>, TRUE, TRUE)

\* Encrypt, where rnd says what the two calls of rand.Read do
Encrypt(plaintext, passphrase, rnd) ==
    IF ~rnd.saltOk
    THEN EncryptResult(NilBytes, NilBytes, NilBytes, "failed to generate salt",
                       <<"failed">>, FALSE, FALSE)
    ELSE IF ~rnd.ivOk
    THEN EncryptResult(NilBytes, NilBytes, NilBytes, "failed to generate IV",
                       <<"ok", "failed">>, FALSE, FALSE)
    ELSE LET salt == Filled(saltSize, rnd.saltFill)
             iv == Filled(ivSize, rnd.ivFill)
             key == pbkdf2(passphrase, salt.bytes, iterations, keySize)
         IN  IF key.len \notin {16, 24, 32}
             THEN EncryptResult(NilBytes, NilBytes, NilBytes, "failed to create cipher",
                                <<"ok", "ok">>, TRUE, FALSE)
             ELSE EncryptResult(salt, iv, Seal(key, iv.bytes, plaintext), "nil",
                                <<"ok", "ok">>, TRUE, TRUE)

\* ------------------------------------------------------------------------
\* Encrypt applied to a plaintext and a passphrase
\* ------------------------------------------------------------------------
MaxPlainPieces == 3

Plaintexts(n) == Docs({<<"a">>, <<"b">>}, n)
Passphrases == {<<>>, <<"k">>}
FillBytes == {0, 255}

\* what the two reads of crypto/rand may do during one call
RandomReads ==
    [saltOk : BOOLEAN, saltFill : FillBytes, ivOk : BOOLEAN, ivFill : FillBytes]

EncryptInit ==
    /\ doc \in Plaintexts(MaxPlainPieces)
    /\ textOp = "none"
    /\ textOrder = <<>>
    /\ textDepth = 0
    /\ textPath = <<>>
    /\ ctxData = <<>>
    /\ textKey = <<>>
    /\ textOut = OkResult(<<>>)

CallEncrypt ==
    /\ textOp = "none"
    /\ textOp' = "Encrypt"
    /\ \E passphrase \in Passphrases, rnd \in RandomReads :
           /\ textKey' = passphrase
           /\ textOut' = Encrypt(doc, passphrase, rnd)
    /\ UNCHANGED <<doc, textOrder, textDepth, textPath, ctxData, nonTextVars>>

EncryptNext == CallEncrypt

\* ------------------------------------------------------------------------
\* encrypt: BuildEncryptedPage and the routine it puts into the page
\* ------------------------------------------------------------------------
\* Characters outside ASCII are written by their code point
Bom == "U+FEFF"
EAcute == "U+00E9"
ReplacementChar == "U+FFFD"

\* the UTF-8 encoding of the characters the texts here are made of
Utf8Table ==
    [c \in {"a", "b", "k", EAcute, Bom, ReplacementChar} |->
        CASE c = "a" -> <<97>>
          [] c = "b" -> <<98>>
          [] c = "k" -> <<107>>
          [] c = EAcute -> <<195, 169>>
          [] c = Bom -> <<239, 187, 191>>
          [] c = ReplacementChar -> <<239, 191, 189>>]

\* []byte(s): a Go string is the UTF-8 bytes of its text
GoBytes(s) == Flatten([i \in 1..Len(s) |-> Utf8Table[s[i]]])

\* new TextEncoder().encode(s)
TextEncoderEncode(s) == Flatten([i \in 1..Len(s) |-> Utf8Table[s[i]]])

\* the UTF-8 decoder: the character whose encoding begins the bytes, or
\* U+FFFD for a byte that begins none
RECURSIVE Utf8Decode(_)
Utf8Decode(bytes) ==
    IF bytes = <<>> THEN <<>>
    ELSE LET starts == {c \in DOMAIN Utf8Table :
                           /\ Len(Utf8Table[c]) <= Len(bytes)
                           /\ SubSeq(bytes, 1, Len(Utf8Table[c])) = Utf8Table[c]}
         IN  IF starts = {}
             THEN <<ReplacementChar>> \o Utf8Decode(Tail(bytes))
             ELSE LET c == CHOOSE c \in starts : TRUE
                  IN  <<c>> \o Utf8Decode(SubSeq(bytes, Len(Utf8Table[c]) + 1, Len(bytes)))

\* new TextDecoder().decode(bytes): UTF-8 with the ignoreBOM flag unset, so
\* a byte order mark at the start is not part of the result
TextDecoderDecode(bytes) ==
    IF Len(bytes) >= 3 /\ SubSeq(bytes, 1, 3) = Utf8Table[Bom]
    THEN Utf8Decode(SubSeq(bytes, 4, Len(bytes)))
    ELSE Utf8Decode(bytes)

\* A base64 text is the sequence of the alphabet indices of its characters,
\* with Pad for `=`
Pad == 64

\* base64.StdEncoding.EncodeToString
RECURSIVE EncodeToString(_)
EncodeToString(src) ==
    IF src = <<>> THEN <<>>
    ELSE IF Len(src) = 1
    THEN <<src[1] \div 4, (src[1] % 4) * 16, Pad, Pad>>
    ELSE IF Len(src) = 2
    THEN <<src[1] \div 4, (src[1] % 4) * 16 + src[2] \div 16, (src[2] % 16) * 4, Pad>>
    ELSE <<src[1] \div 4, (src[1] % 4) * 16 + src[2] \div 16,
           (src[2] % 16) * 4 + src[3] \div 64, src[3] % 64>>
         \o EncodeToString(SubSeq(src, 4, Len(src)))

\* b64ToBytes: atob and the char codes of its result
RECURSIVE b64ToBytes(_)
b64ToBytes(b64) ==
    IF Len(b64) < 4 THEN <<>>
    ELSE (IF b64[3] = Pad
          THEN <<b64[1] * 4 + b64[2] \div 16>>
          ELSE IF b64[4] = Pad
          THEN <<b64[1] * 4 + b64[2] \div 16, (b64[2] % 16) * 16 + b64[3] \div 4>>
          ELSE <<b64[1] * 4 + b64[2] \div 16, (b64[2] % 16) * 16 + b64[3] \div 4,
                 (b64[3] % 4) * 64 + b64[4]>>)
         \o b64ToBytes(SubSeq(b64, 5, Len(b64)))

\* a ^ b on bytes
RECURSIVE Xor(_, _)
Xor(a, b) ==
    IF a = 0 THEN b
    ELSE IF b = 0 THEN a
    ELSE ((a + b) % 2) + 2 * Xor(a \div 2, b \div 2)

RECURSIVE SumBytes(_)
SumBytes(b) == IF b = <<>> THEN 0 ELSE Head(b) + SumBytes(Tail(b))

\* AES-GCM stands as a counter-mode stream with a tag: what matters of the
\* key is which password bytes, salt, iteration count and length it was
\* derived from
KeyDigest(password, salt, iter, keyLen) ==
    (SumBytes(password) * 7 + SumBytes(salt) + iter + keyLen) % 256

KeyStream(k, iv, i) == (k + SumBytes(iv) + 31 * i) % 256

GcmTag(k, iv, body) ==
    [i \in 1..gcmTagSize |-> (k + SumBytes(iv) + SumBytes(body) + i) % 256]

\* the bytes gcm.Seal returns for a sealed value
CipherBytes(ct) ==
    LET k == KeyDigest(GoBytes(ct.key.password), ct.key.salt, ct.key.iter, ct.key.len)
        pt == GoBytes(ct.plaintext)
        body == [i \in 1..Len(pt) |-> Xor(pt[i], KeyStream(k, ct.iv, i))]
    IN  body \o GcmTag(k, ct.iv, body)

\* BuildEncryptedPage: the parts of the page that vary and the parameters its
\* script has
BuildEncryptedPage(salt, iv, ciphertext, decryptFormHTML) ==
    [form |-> TrimSpace(decryptFormHTML),
     payload |-> EncodeToString(ciphertext),
     SALT |-> EncodeToString(salt),
     IV |-> EncodeToString(iv),
     ITERATIONS |-> 100000,
     hash |-> "SHA-256",
     length |-> 256]

WrongPassphrase == [status |-> "error", text |-> <<>>]

\* crypto.subtle.decrypt({name: "AES-GCM", iv: iv}, key, ct)
SubtleDecrypt(k, iv, ct) ==
    IF Len(ct) < gcmTagSize THEN WrongPassphrase
    ELSE LET body == SubSeq(ct, 1, Len(ct) - gcmTagSize)
             tag == SubSeq(ct, Len(ct) - gcmTagSize + 1, Len(ct))
         IN  IF tag # GcmTag(k, iv, body) THEN WrongPassphrase
             ELSE [status |-> "ok",
                   text |-> [i \in 1..Len(body) |-> Xor(body[i], KeyStream(k, iv, i))]]

\* decrypt(passphrase) of the script of the page
decrypt(page, passphrase) ==
    LET salt == b64ToBytes(page.SALT)
        iv == b64ToBytes(page.IV)
        ct == b64ToBytes(page.payload)
        key == KeyDigest(TextEncoderEncode(passphrase), salt, page.ITERATIONS,
                         page.length \div 8)
        decrypted == SubtleDecrypt(key, iv, ct)
    IN  IF decrypted.status = "ok"
        THEN [status |-> "ok", text |-> TextDecoderDecode(decrypted.text)]
        ELSE WrongPassphrase

\* ------------------------------------------------------------------------
\* encrypt.pbkdf2 and pbkdf2Block, statement by statement
\* ------------------------------------------------------------------------
sha256Size == 32

\* HMAC-SHA-256 stands as a keyed function of the bytes written, position by
\* position, that gives sha256Size bytes
Hmac(key, msg) ==
    LET weighed == [i \in 1..Len(msg) |-> (i + 1) * msg[i]]
    IN  [j \in 1..sha256Size |->
            (7 * SumBytes(key) + SumBytes(weighed) + 5 * Len(msg) + 13 * j) % 256]

\* byte(v): the low eight bits
Byte(v) == v % 256

\* []byte{byte(blockNum >> 24), byte(blockNum >> 16), byte(blockNum >> 8), byte(blockNum)}
BlockIndexBytes(blockNum) ==
    <<Byte(blockNum \div 16777216), Byte(blockNum \div 65536),
      Byte(blockNum \div 256), Byte(blockNum)>>

\* result[j] ^= u[j] for every j
XorInto(result, u) == [j \in 1..Len(result) |-> Xor(result[j], u[j])]

\* numBlocks := (keyLen + sha256.Size - 1) / sha256.Size
NumBlocks(keyLen) == (keyLen + sha256Size - 1) \div sha256Size

MaxIter == 3

KdfPasswords == {<<>>, <<107>>, <<107, 107>>}
KdfSalts == {<<0>>, <<1, 2>>}
KeyLens == {16, 32, 33}

\* textKey is the password and doc the salt; textOut holds iter, keyLen and
\* the local variables of pbkdf2 and pbkdf2Block
KdfInit ==
    /\ doc \in KdfSalts
    /\ textKey \in KdfPasswords
    /\ textOp = "none"
    /\ textOrder = <<>>
    /\ textDepth = 0
    /\ textPath = <<>>
    /\ ctxData = <<>>
    /\ \E iter \in 1..MaxIter, keyLen \in KeyLens :
           textOut = [at |-> "call", iter |-> iter, keyLen |-> keyLen, block |-> 0,
                      dk |-> <<>>, h |-> <<>>, u |-> <<>>, result |-> <<>>, i |-> 0,
                      sums |-> 0, key |-> <<>>]

KdfStep(from, out) ==
    /\ textOut.at = from
    /\ textOut' = out
    /\ UNCHANGED <<doc, textOrder, textDepth, textPath, ctxData, textKey, nonTextVars>>

\* pbkdf2, lines 52-55: `var dk []byte` and `block := 1`
Pbkdf2Enter ==
    /\ textOp = "none"
    /\ textOp' = "pbkdf2"
    /\ KdfStep("call", [textOut EXCEPT !.at = "for block", !.block = 1, !.dk = <<>>])

\* pbkdf2Block, lines 62-69: U1 and the copy of it
Pbkdf2BlockFirst ==
    /\ textOut.block <= NumBlocks(textOut.keyLen)
    /\ UNCHANGED textOp
    /\ LET h == doc \o BlockIndexBytes(textOut.block)
           u == Hmac(textKey, h)
       IN  KdfStep("for block",
                   [textOut EXCEPT !.at = "for i", !.h = h, !.u = u, !.result = u,
                                   !.i = 1, !.sums = 1])

\* pbkdf2Block without h.Reset(): the next U is taken over all that was
\* written so far
Pbkdf2BlockNextWithoutReset ==
    /\ textOut.i < textOut.iter
    /\ UNCHANGED textOp
    /\ LET h == textOut.h \o textOut.u
           u == Hmac(textKey, h)
       IN  KdfStep("for i",
                   [textOut EXCEPT !.h = h, !.u = u,
                                   !.result = XorInto(textOut.result, u),
                                   !.i = textOut.i + 1, !.sums = textOut.sums + 1])

\* pbkdf2Block, lines 72-79: one turn of `for i := 1; i < iter; i++`
Pbkdf2BlockNext ==
    /\ textOut.i < textOut.iter
    /\ UNCHANGED textOp
    /\ LET h == textOut.u
           u == Hmac(textKey, h)
       IN  KdfStep("for i",
                   [textOut EXCEPT !.h = h, !.u = u,
                                   !.result = XorInto(textOut.result, u),
                                   !.i = textOut.i + 1, !.sums = textOut.sums + 1])

\* pbkdf2Block returns and pbkdf2 appends the block, lines 80 and 56
Pbkdf2BlockReturn ==
    /\ ~(textOut.i < textOut.iter)
    /\ UNCHANGED textOp
    /\ KdfStep("for i",
               [textOut EXCEPT !.at = "for block", !.dk = textOut.dk \o textOut.result,
                               !.block = textOut.block + 1])

\* pbkdf2, line 58: return dk[:keyLen]
Pbkdf2Return ==
    /\ ~(textOut.block <= NumBlocks(textOut.keyLen))
    /\ UNCHANGED textOp
    /\ KdfStep("for block",
               [textOut EXCEPT !.at = "returned",
                               !.key = SubSeq(textOut.dk, 1, textOut.keyLen)])

KdfNext ==
    \/ Pbkdf2Enter
    \/ Pbkdf2BlockFirst
    \/ Pbkdf2BlockNext
    \/ Pbkdf2BlockReturn
    \/ Pbkdf2Return

\* ------------------------------------------------------------------------
\* A page is sealed, then a passphrase is submitted to its form
\* ------------------------------------------------------------------------
MaxSealedChars == 2

SealedTexts(n) == Docs({<<"a">>, <<EAcute>>, <<Bom>>}, n)
DecryptForm == <<" ", "a", " ">>

SealInit ==
    /\ doc \in SealedTexts(MaxSealedChars)
    /\ textOp = "none"
    /\ textOrder = <<>>
    /\ textDepth = 0
    /\ textPath = <<>>
    /\ ctxData = <<>>
    /\ textKey = <<>>
    /\ textOut = OkResult(<<>>)

\* Encrypt, then BuildEncryptedPage on what it returned
SealPage ==
    /\ textOp = "none"
    /\ textOp' = "BuildEncryptedPage"
    /\ \E passphrase \in Passphrases, rnd \in RandomReads :
           /\ textKey' = passphrase
           /\ LET e == Encrypt(doc, passphrase, rnd)
              IN  textOut' =
                      IF e.err # "nil" THEN [status |-> "error", page |-> <<>>]
                      ELSE [status |-> "ok",
                            page |-> BuildEncryptedPage(e.salt.bytes, e.iv.bytes,
                                                        CipherBytes(e.ciphertext),
                                                        DecryptForm)]
    /\ UNCHANGED <<doc, textOrder, textDepth, textPath, ctxData, nonTextVars>>

\* the submit handler of the form: decrypt with what was typed
SubmitPassphrase ==
    /\ textOp = "BuildEncryptedPage"
    /\ textOut.status = "ok"
    /\ textOp' = "decrypt"
    /\ \E typed \in Passphrases :
           textOut' = [status |-> decrypt(textOut.page, typed).status,
                       text |-> decrypt(textOut.page, typed).text,
                       typed |-> typed]
    /\ UNCHANGED <<doc, textOrder, textDepth, textPath, ctxData, textKey, nonTextVars>>

SealNext == SealPage \/ SubmitPassphrase

\* ------------------------------------------------------------------------
\* Inputs of a build: the files of a small site
\* ------------------------------------------------------------------------
MaxComponents == 2
MaxPages == 1

NameBox == <<"b", "o", "x">>
AllNames == <<NameCard, NameNav, NameBox>>
CompNames == {AllNames[i] : i \in 1..MaxComponents}

\* <n>.d</n>
Ref(n) == OpenTag(n) \o <<".", "d">> \o CloseTag(n)

\* <ca<preview></preview>rd> : the two halves of <card> around a preview span
SplitCardTag == <<"<", "c", "a">> \o PreviewOpen \o PreviewClose \o <<"r", "d", ">">>

RefBodies == {<<"x">>} \cup {Ref(n) : n \in CompNames}

HtmlFile(head, body) == head \o BodyOpen \o body \o BodyClose \o <<"\n">>

ComponentFiles ==
    {HtmlFile(PreviewOpen \o <<"d">> \o PreviewClose, b) : b \in RefBodies}
    \cup {<<"x">>}

IndexFiles ==
    {HtmlFile(<<>>, b) : b \in {<<"x">>, Ref(NameCard)}}
    \cup {BodyOpen \o <<"x">>, BodyClose \o BodyOpen \o <<"x">>}

HeaderTexts == {<<>>, Ref(NameCard), SplitCardTag}
FooterTexts == {<<>>, Ref(NameNav)}

\* A page that declares a passphrase and names nav, and a page without a body
PageContents ==
    { HtmlFile(EncryptOpen \o <<"k">> \o EncryptClose, Ref(NameNav)),
      <<"x">> }

PagePaths == << <<"about.html">>, <<"docs", "index.html">> >>

PageLists ==
    UNION { { [i \in 1..k |-> [SourcePath |-> PagePaths[i],
                               OutputPath |-> PagePaths[i],
                               Content |-> c[i]]] :
              c \in [1..k -> PageContents] } : k \in 0..MaxPages }

\* ------------------------------------------------------------------------
\* One build cycle: Orchestrator.RunOnce = Site.Load, then Site.Generate
\* ------------------------------------------------------------------------
EmptyMap == <<>>

SiteEmpty ==
    /\ siteLoaded = FALSE
    /\ components = EmptyMap
    /\ pages = <<>>
    /\ originalComponentTemplates = EmptyMap
    /\ originalPageContent = EmptyMap
    /\ originalMainContent = <<>>
    /\ wrapperContent = <<>>
    /\ mainTemplateContent = <<>>
    /\ headerContent = <<>>
    /\ footerContent = <<>>
    /\ used = {}
    /\ changed = FALSE
    /\ passStart = {}
    /\ visited = {}
    /\ passes = 0
    /\ ranSteps = <<>>
    /\ failedStep = "none"
    /\ runErr = FALSE
    /\ log = <<>>
    /\ unusedReport = {}
    /\ written = {}

BuildIdle ==
    /\ fsIndex = <<>>
    /\ fsHeader = <<>>
    /\ fsFooter = <<>>
    /\ fsPages = <<>>
    /\ fsComponents = EmptyMap
    /\ pc = "off"
    /\ SiteEmpty

BuildInit ==
    /\ fsIndex = <<>>
    /\ fsHeader = <<>>
    /\ fsFooter = <<>>
    /\ fsPages = <<>>
    /\ fsComponents = EmptyMap
    /\ pc = "RunOnce"
    /\ SiteEmpty

\* AfterStep with the error of CopyStylesheet dropped
AfterStepDropsCssError(step, err, next) ==
    IF err /\ step # "CopyStylesheet" THEN "returned" ELSE next

\* `if err != nil { return fmt.Errorf(...) }` after a step
AfterStep(step, err, next) == IF err THEN "returned" ELSE next

StepDone(step, err, next) ==
    /\ ranSteps' = Append(ranSteps, step)
    /\ failedStep' = IF err THEN step ELSE failedStep
    /\ pc' = AfterStep(step, err, next)
    /\ runErr' = (err /\ AfterStep(step, err, next) = "returned")

\* A step that crashes the process with a run-time panic
StepPanics(step) ==
    /\ ranSteps' = Append(ranSteps, step)
    /\ pc' = "panicked"
    /\ UNCHANGED <<failedStep, runErr>>

\* ReplaceComponentTags ranges over the component map: every iteration order
\* of the map is possible, independently for each call.
RECURSIVE RenameOutcomes(_, _)
RenameOutcomes(result, rest) ==
    IF rest = {} THEN {result}
    ELSE UNION {RenameOutcomes(ReplaceOneName(result, name), rest \ {name}) :
                   name \in rest}

RewriteOutcomes(templateContent) ==
    {RemoveEncryptTags(RemovePreviewTags(renamed)) :
        renamed \in RenameOutcomes(templateContent, CompNames)}

RunOnce ==
    /\ pc = "RunOnce"
    /\ pc' = "LoadAssets"
    /\ log' = Append(log, "Starting site generation...")
    /\ UNCHANGED <<nonBuildVars, fsVars, siteVars, usedVars, ranSteps, failedStep, runErr,
                   unusedReport, written>>

LoadAssets ==
    /\ pc = "LoadAssets"
    /\ \E err \in BOOLEAN : StepDone("LoadAssets", err, "LoadData")
    /\ UNCHANGED <<nonBuildVars, fsVars, siteVars, usedVars, log, unusedReport, written>>

LoadData ==
    /\ pc = "LoadData"
    /\ \E err \in BOOLEAN : StepDone("LoadData", err, "LoadComponents")
    /\ UNCHANGED <<nonBuildVars, fsVars, siteVars, usedVars, log, unusedReport, written>>

\* LoadComponents finds the component files; their texts are what
\* ParseComponents will read.
LoadComponents ==
    /\ pc = "LoadComponents"
    /\ \/ /\ StepDone("LoadComponents", TRUE, "ParseComponents")
          /\ UNCHANGED <<components, fsComponents>>
       \/ /\ StepDone("LoadComponents", FALSE, "ParseComponents")
          /\ fsComponents' \in [CompNames -> ComponentFiles]
          /\ components' =
                 [n \in CompNames |->
                    [Template |-> <<>>, DataPath |-> <<>>, Dependencies |-> {}]]
    /\ UNCHANGED <<nonBuildVars, fsIndex, fsHeader, fsFooter, fsPages, siteLoaded, pages, originalComponentTemplates,
                   originalPageContent, originalMainContent, wrapperContent,
                   mainTemplateContent, headerContent, footerContent,
                   usedVars, log, unusedReport, written>>

\* ParseComponents: ParseComponent on every component of the map
ParseComponents ==
    /\ pc = "ParseComponents"
    /\ LET parsed == [n \in CompNames |-> ExtractTemplatesAndBody(fsComponents[n])]
       IN  \/ /\ \E n \in CompNames : parsed[n].status = "panic"
              /\ StepPanics("ParseComponents")
              /\ UNCHANGED components
           \/ /\ \E readErr \in BOOLEAN :
                    /\ readErr \/ \E n \in CompNames : parsed[n].status = "error"
                    /\ StepDone("ParseComponents", TRUE, "ReplaceComponentTags")
              /\ UNCHANGED components
           \/ /\ \A n \in CompNames : parsed[n].status = "ok"
              /\ StepDone("ParseComponents", FALSE, "ReplaceComponentTags")
              /\ components' =
                     [n \in CompNames |->
                        [Template |-> parsed[n].body,
                         DataPath |-> parsed[n].dataPath,
                         Dependencies |-> {}]]
    /\ UNCHANGED <<nonBuildVars, fsVars, siteLoaded, pages, originalComponentTemplates,
                   originalPageContent, originalMainContent, wrapperContent,
                   mainTemplateContent, headerContent, footerContent,
                   usedVars, log, unusedReport, written>>

\* ReplaceComponentTagsInAllComponents with the two passes in the other order:
\* the dependencies are taken from the rewritten templates
ReplaceComponentTagsInAllComponentsRewritesFirst ==
    /\ pc = "ReplaceComponentTags"
    /\ originalComponentTemplates' = [n \in CompNames |-> components[n].Template]
    /\ \E outcomes \in {UNION {{<<n, r>> : r \in RewriteOutcomes(components[n].Template)} :
                                    n \in CompNames}} :
          \E rewritten \in [CompNames -> {p[2] : p \in outcomes}] :
              /\ \A n \in CompNames : <<n, rewritten[n]>> \in outcomes
              /\ components' =
                     [n \in CompNames |->
                        [Template |-> rewritten[n],
                         DataPath |-> components[n].DataPath,
                         Dependencies |->
                             ExtractComponentDependencies(rewritten[n], CompNames)]]
    /\ StepDone("ReplaceComponentTags", FALSE, "LoadPages")
    /\ UNCHANGED <<nonBuildVars, fsVars, siteLoaded, pages, originalPageContent,
                   originalMainContent, wrapperContent, mainTemplateContent,
                   headerContent, footerContent, usedVars, log, unusedReport,
                   written>>

\* Load, lines 89-96: keep the original bodies, then
\* TagReplacer.ReplaceComponentTagsInAllComponents
ReplaceComponentTagsInAllComponents ==
    /\ pc = "ReplaceComponentTags"
    /\ originalComponentTemplates' = [n \in CompNames |-> components[n].Template]
    /\ \E outcomes \in {UNION {{<<n, r>> : r \in RewriteOutcomes(components[n].Template)} :
                                    n \in CompNames}} :
          \E rewritten \in [CompNames -> {p[2] : p \in outcomes}] :
              /\ \A n \in CompNames : <<n, rewritten[n]>> \in outcomes
              /\ components' =
                     [n \in CompNames |->
                        [Template |-> rewritten[n],
                         DataPath |-> components[n].DataPath,
                         Dependencies |->
                             ExtractComponentDependencies(components[n].Template,
                                                          CompNames)]]
    /\ StepDone("ReplaceComponentTags", FALSE, "LoadPages")
    /\ UNCHANGED <<nonBuildVars, fsVars, siteLoaded, pages, originalPageContent,
                   originalMainContent, wrapperContent, mainTemplateContent,
                   headerContent, footerContent, usedVars, log, unusedReport,
                   written>>

LoadPages ==
    /\ pc = "LoadPages"
    /\ \/ /\ StepDone("LoadPages", TRUE, "LoadTemplates")
          /\ UNCHANGED <<pages, fsPages>>
       \/ /\ StepDone("LoadPages", FALSE, "LoadTemplates")
          /\ fsPages' \in PageLists
          /\ pages' =
                 [i \in 1..Len(fsPages') |->
                    [SourcePath |-> fsPages'[i].SourcePath,
                     OutputPath |-> fsPages'[i].OutputPath,
                     Content |-> fsPages'[i].Content,
                     EncryptKey |-> <<>>]]
    /\ UNCHANGED <<nonBuildVars, fsIndex, fsHeader, fsFooter, fsComponents, siteLoaded, components, originalComponentTemplates,
                   originalPageContent, originalMainContent, wrapperContent,
                   mainTemplateContent, headerContent, footerContent,
                   usedVars, log, unusedReport, written>>

LoadTemplates ==
    /\ pc = "LoadTemplates"
    /\ \/ /\ StepDone("LoadTemplates", TRUE, "ProcessPages")
          /\ UNCHANGED <<fsIndex, fsHeader, fsFooter>>
       \/ /\ StepDone("LoadTemplates", FALSE, "ProcessPages")
          /\ fsIndex' \in IndexFiles
          /\ fsHeader' \in HeaderTexts
          /\ fsFooter' \in FooterTexts
    /\ UNCHANGED <<nonBuildVars, fsPages, fsComponents, siteVars, usedVars, log, unusedReport, written>>

\* Load, lines 111-128: keep the original page contents, then wrap every page
\* and rewrite its tags; the first page that cannot be wrapped ends the loop.
ProcessPages ==
    /\ pc = "ProcessPages"
    /\ originalPageContent' =
           [sp \in {pages[i].SourcePath : i \in 1..Len(pages)} |->
               pages[CHOOSE i \in 1..Len(pages) :
                         /\ pages[i].SourcePath = sp
                         /\ \A j \in 1..Len(pages) :
                                pages[j].SourcePath = sp => j <= i].Content]
    /\ LET wrapped == [i \in 1..Len(pages) |-> WrapPageWithHeaderFooter(pages[i].Content)]
           bad == {i \in 1..Len(pages) : wrapped[i].status # "ok"}
           stop == IF bad = {} THEN Len(pages) + 1 ELSE MinOf(bad)
       IN  /\ \E outcomes \in {UNION {{<<i, r>> : r \in IF i < stop
                                                    THEN RewriteOutcomes(wrapped[i].text)
                                                    ELSE {pages[i].Content}} :
                                       i \in 1..Len(pages)}} :
              \E rewritten \in [1..Len(pages) -> {p[2] : p \in outcomes}] :
                /\ \A i \in 1..Len(pages) : <<i, rewritten[i]>> \in outcomes
                /\ pages' = [i \in 1..Len(pages) |->
                                [pages[i] EXCEPT !.Content = rewritten[i]]]
           /\ IF bad = {} THEN StepDone("ProcessPages", FALSE, "ExtractWrapper")
              ELSE IF wrapped[stop].status = "panic" THEN StepPanics("ProcessPages")
              ELSE StepDone("ProcessPages", TRUE, "ExtractWrapper")
    /\ UNCHANGED <<nonBuildVars, fsVars, siteLoaded, components, originalComponentTemplates,
                   originalMainContent, wrapperContent, mainTemplateContent,
                   headerContent, footerContent, usedVars, log, unusedReport,
                   written>>

\* Load, lines 130-159: s.site is set, then the wrapper template is made
ExtractWrapperStep ==
    /\ pc = "ExtractWrapper"
    /\ siteLoaded' = TRUE
    /\ LET w == ExtractWrapper(fsIndex)
       IN  \/ /\ w.status = "panic"
              /\ StepPanics("ExtractWrapper")
              /\ UNCHANGED wrapperContent
           \/ /\ w.status = "error"
              /\ StepDone("ExtractWrapper", TRUE, "ExtractMain")
              /\ UNCHANGED wrapperContent
           \/ /\ w.status = "ok"
              /\ \E parseErr \in BOOLEAN :
                    /\ StepDone("ExtractWrapper", parseErr, "ExtractMain")
                    /\ wrapperContent' = IF parseErr THEN wrapperContent ELSE w.text
    /\ UNCHANGED <<nonBuildVars, fsVars, components, pages, originalComponentTemplates,
                   originalPageContent, originalMainContent, mainTemplateContent,
                   headerContent, footerContent, usedVars, log, unusedReport,
                   written>>

\* Load, lines 161-178
ExtractMainStep ==
    /\ pc = "ExtractMain"
    /\ LET m == ExtractMain(fsIndex)
       IN  \/ /\ m.status = "panic"
              /\ StepPanics("ExtractMain")
              /\ UNCHANGED <<originalMainContent, mainTemplateContent,
                             headerContent, footerContent, log>>
           \/ /\ m.status = "error"
              /\ StepDone("ExtractMain", TRUE, "findUsedComponents")
              /\ UNCHANGED <<originalMainContent, mainTemplateContent,
                             headerContent, footerContent, log>>
           \/ /\ m.status = "ok"
              /\ StepDone("ExtractMain", FALSE, "findUsedComponents")
              /\ originalMainContent' = m.text
              /\ mainTemplateContent' \in RewriteOutcomes(m.text)
              /\ headerContent' \in RewriteOutcomes(fsHeader)
              /\ footerContent' \in RewriteOutcomes(fsFooter)
              /\ log' = Append(log, "Site loaded successfully")
    /\ UNCHANGED <<nonBuildVars, fsVars, siteLoaded, components, pages,
                   originalComponentTemplates, originalPageContent,
                   wrapperContent, usedVars, unusedReport, written>>

\* findUsedComponents, lines 241-264: the components named by an entry point
UsedSeeds ==
    {n \in DOMAIN components : isComponentUsedInContent(n, originalMainContent)}
    \cup {n \in DOMAIN components :
             \/ isComponentUsedInContent(n, headerContent)
             \/ isComponentUsedInContent(n, footerContent)}
    \cup {n \in DOMAIN components :
             \E i \in 1..Len(pages) :
                 isComponentUsedInContent(n, originalPageContent[pages[i].SourcePath])}

\* NewDependencies scanning the rewritten template of `name`
NewDependenciesFromRewritten(name) ==
    {depName \in DOMAIN components :
        /\ depName \notin used
        /\ isComponentUsedInContent(depName, components[name].Template)}

\* findUsedComponents, lines 272-278: what visiting `name` adds to `used`
NewDependencies(name) ==
    {depName \in DOMAIN components :
        /\ depName \notin used
        /\ isComponentUsedInContent(depName, originalComponentTemplates[name])}

\* Generate, line 190: findUsedComponents is entered and seeds `used`
FindUsedSeed ==
    /\ pc = "findUsedComponents"
    /\ used' = UsedSeeds
    /\ changed' = TRUE
    /\ pc' = "usedLoop"
    /\ ranSteps' = Append(ranSteps, "findUsedComponents")
    /\ UNCHANGED <<nonBuildVars, fsVars, siteVars, passStart, visited, passes, failedStep,
                   runErr, log, unusedReport, written>>

\* `for changed { changed = false; for name := range used {`
UsedLoopHead ==
    /\ pc = "usedLoop"
    /\ IF changed
       THEN /\ changed' = FALSE
            /\ passStart' = used
            /\ visited' = {}
            /\ pc' = "usedRange"
       ELSE /\ pc' = "GenerateComponentPreviews"
            /\ UNCHANGED <<changed, passStart, visited>>
    /\ UNCHANGED <<nonBuildVars, fsVars, siteVars, used, passes, ranSteps, failedStep, runErr,
                   log, unusedReport, written>>

\* UsedVisit setting `changed` for every component the template names, in
\* `used` already or not
UsedVisitMarksEveryReference ==
    /\ pc = "usedRange"
    /\ passes <= MaxComponents + 2
    /\ \E name \in used \ visited :
        /\ used' = used \cup NewDependencies(name)
        /\ changed' = (\/ changed
                       \/ \E depName \in DOMAIN components :
                              isComponentUsedInContent(depName,
                                                       originalComponentTemplates[name]))
        /\ visited' = visited \cup {name}
    /\ UNCHANGED <<nonBuildVars, fsVars, siteVars, passStart, passes, pc, ranSteps,
                   failedStep, runErr, log, unusedReport, written>>

\* The range loop produces a key of `used` it has not produced yet.
UsedVisit ==
    /\ pc = "usedRange"
    /\ \E name \in used \ visited :
        /\ used' = used \cup NewDependencies(name)
        /\ changed' = (changed \/ NewDependencies(name) # {})
        /\ visited' = visited \cup {name}
    /\ UNCHANGED <<nonBuildVars, fsVars, siteVars, passStart, passes, pc, ranSteps,
                   failedStep, runErr, log, unusedReport, written>>

\* The range loop ends: every key present when it started has been produced;
\* a key inserted during the loop may have been skipped.
UsedRangeEnd ==
    /\ pc = "usedRange"
    /\ passStart \subseteq visited
    /\ pc' = "usedLoop"
    /\ passes' = passes + 1
    /\ UNCHANGED <<nonBuildVars, fsVars, siteVars, used, changed, passStart, visited,
                   ranSteps, failedStep, runErr, log, unusedReport, written>>

ComponentPreview(n) ==
    [kind |-> "component-preview", id |-> n, sealed |-> FALSE,
     template |-> components[n].Template]

\* ComponentGenerator.GenerateComponentPreviews: the previews are written one
\* by one in map order; the first failure ends the loop.
GenerateComponentPreviews ==
    /\ pc = "GenerateComponentPreviews"
    /\ \E order \in Orders(DOMAIN components), k \in 0..Cardinality(DOMAIN components) :
        /\ written' = written \cup {ComponentPreview(order[i]) : i \in 1..k}
        /\ StepDone("GenerateComponentPreviews",
                    k < Cardinality(DOMAIN components), "GenerateMainSite")
    /\ UNCHANGED <<nonBuildVars, fsVars, siteVars, usedVars, log, unusedReport>>

HeaderName == <<"h", "e", "a", "d", "e", "r", ".", "h", "t", "m", "l">>
FooterName == <<"f", "o", "o", "t", "e", "r", ".", "h", "t", "m", "l">>

\* the text holds `{{ template "name" `
CallsTemplate(text, name) ==
    Contains(text, TemplateOpenPre \o name \o TemplateOpenPost)

\* The generators parse header.html and footer.html into the template set
\* only when their content is not empty; executing a template that calls a
\* template the set does not hold fails with `no such template`.
NoSuchTemplate(text) ==
    \/ headerContent = <<>> /\ CallsTemplate(text, HeaderName)
    \/ footerContent = <<>> /\ CallsTemplate(text, FooterName)

\* MainSiteGenerator.GenerateMainSite: parsing or executing the template or
\* writing the file may fail
GenerateMainSite ==
    /\ pc = "GenerateMainSite"
    /\ \E err \in (IF NoSuchTemplate(mainTemplateContent) THEN {TRUE} ELSE BOOLEAN) :
        /\ StepDone("GenerateMainSite", err, "GeneratePages")
        /\ written' =
               IF err THEN written
               ELSE written \cup
                        {[kind |-> "main-index", id |-> <<"index.html">>,
                          sealed |-> FALSE, template |-> mainTemplateContent]}
    /\ UNCHANGED <<nonBuildVars, fsVars, siteVars, usedVars, log, unusedReport>>

\* MainSiteGenerator.generatePage: the artifact written for a page
PageArtifact(page) ==
    [kind |-> "page", id |-> page.OutputPath, sealed |-> FALSE,
     template |-> page.Content]

\* MainSiteGenerator.GeneratePages: the first page that fails ends the loop.
GeneratePages ==
    /\ pc = "GeneratePages"
    /\ \E k \in 0..Len(pages) :
        /\ \A i \in 1..k : ~NoSuchTemplate(pages[i].Content)
        /\ written' = written \cup {PageArtifact(pages[i]) : i \in 1..k}
        /\ StepDone("GeneratePages", k < Len(pages), "CopyAssets")
    /\ UNCHANGED <<nonBuildVars, fsVars, siteVars, usedVars, log, unusedReport>>

CopyAssets ==
    /\ pc = "CopyAssets"
    /\ \E err \in BOOLEAN : StepDone("CopyAssets", err, "CopyStylesheet")
    /\ UNCHANGED <<nonBuildVars, fsVars, siteVars, usedVars, log, unusedReport, written>>

CopyStylesheet ==
    /\ pc = "CopyStylesheet"
    /\ \E err \in BOOLEAN : StepDone("CopyStylesheet", err, "reportUnusedComponents")
    /\ UNCHANGED <<nonBuildVars, fsVars, siteVars, usedVars, log, unusedReport, written>>

\* reportUnusedComponents with a build that fails when a component is unused
ReportUnusedComponentsFatal ==
    /\ pc = "reportUnusedComponents"
    /\ unusedReport' = {n \in DOMAIN components : n \notin used}
    /\ log' = IF unusedReport' # {}
              THEN Append(log, "Unused components detected:")
              ELSE Append(log, "Site generation complete!")
    /\ StepDone("reportUnusedComponents", unusedReport' # {}, "RunOnceReturn")
    /\ UNCHANGED <<nonBuildVars, fsVars, siteVars, usedVars, written>>

\* Site.reportUnusedComponents, which lists the components that are not in
\* `used` under a warning line when there are any, then Generate returns nil
ReportUnusedComponents ==
    /\ pc = "reportUnusedComponents"
    /\ unusedReport' = {n \in DOMAIN components : n \notin used}
    /\ log' = IF unusedReport' # {}
              THEN log \o <<"Unused components detected:", "Site generation complete!">>
              ELSE Append(log, "Site generation complete!")
    /\ StepDone("reportUnusedComponents", FALSE, "RunOnceReturn")
    /\ UNCHANGED <<nonBuildVars, fsVars, siteVars, usedVars, written>>

\* RunOnce, lines 86-89
RunOnceReturn ==
    /\ pc = "RunOnceReturn"
    /\ log' = Append(log, "Site generated successfully")
    /\ pc' = "returned"
    /\ runErr' = FALSE
    /\ UNCHANGED <<nonBuildVars, fsVars, siteVars, usedVars, ranSteps, failedStep,
                   unusedReport, written>>

BuildNext ==
    \/ RunOnce
    \/ LoadAssets
    \/ LoadData
    \/ LoadComponents
    \/ ParseComponents
    \/ ReplaceComponentTagsInAllComponents
    \/ LoadPages
    \/ LoadTemplates
    \/ ProcessPages
    \/ ExtractWrapperStep
    \/ ExtractMainStep
    \/ FindUsedSeed
    \/ UsedLoopHead
    \/ UsedVisit
    \/ UsedRangeEnd
    \/ GenerateComponentPreviews
    \/ GenerateMainSite
    \/ GeneratePages
    \/ CopyAssets
    \/ CopyStylesheet
    \/ ReportUnusedComponents
    \/ RunOnceReturn

\* ------------------------------------------------------------------------
\* Watch mode: Orchestrator.RunContinuous with FileWatcher.Watch
\*
\* Three kinds of goroutine run: the main loop of RunContinuous, the event
\* loop of Watch, and one goroutine per expiry of the debounce timer
\* (time.AfterFunc runs its function in its own goroutine).  A callback is
\* recorded with the burst it was started for, the keys its range loop has
\* produced, the keys the map held when the range loop started, and whether
\* the map it ranges over is still w.pendingChanges ("attached") or has been
\* replaced meanwhile, in which case it keeps the keys of the old map.
\* ------------------------------------------------------------------------
MaxEvents == 2
RegenerateCap == 10
Paths == {"index.html", "about.html"}

WatchIdle ==
    /\ pcMain = "off"
    /\ running = 0
    /\ sigPending = FALSE
    /\ stopClosed = FALSE
    /\ watcherErrChan = <<>>
    /\ regenerateChan = <<>>
    /\ pcWatcher = "off"
    /\ events = 0
    /\ pendingChanges = {}
    /\ debounceTimer = "nil"
    /\ fires = 0
    /\ callbacks = EmptyMap
    /\ rebuildsOf = [b \in 1..MaxEvents |-> 0]
    /\ owed = [onChange |-> {}, rebuild |-> FALSE]

WatchInit ==
    /\ pcMain = "RunContinuous"
    /\ running = 0
    /\ sigPending = FALSE
    /\ stopClosed = FALSE
    /\ watcherErrChan = <<>>
    /\ regenerateChan = <<>>
    /\ pcWatcher = "off"
    /\ events = 0
    /\ pendingChanges = {}
    /\ debounceTimer = "nil"
    /\ fires = 0
    /\ callbacks = EmptyMap
    /\ rebuildsOf = [b \in 1..MaxEvents |-> 0]
    /\ owed = [onChange |-> {}, rebuild |-> FALSE]

\* The process lives until RunContinuous returns to main or a fatal error.
Alive == pcMain \notin {"off", "exited", "crashed"}

\* InsideRunOnce for `go o.RunOnce()`: the loop selects again at once
InsideRunOnceAsync == "select"

\* `o.RunOnce()` is a call: the loop that made it is inside RunOnce until it
\* returns.
InsideRunOnce == "RunOnce"

\* RunContinuous, line 95: the initial generation is started
InitialRunOnceBegin ==
    /\ pcMain = "RunContinuous"
    /\ pcMain' = "initialRunOnce"
    /\ running' = running + 1
    /\ UNCHANGED <<nonWatchVars, owed, sigPending, stopClosed, watcherErrChan,
                   regenerateChan, pcWatcher, events, pendingChanges,
                   debounceTimer, fires, callbacks, rebuildsOf>>

\* ... and returns; on success the signal handler is installed and the watcher
\* goroutine is launched (lines 99-134).
InitialRunOnceEnd ==
    /\ pcMain = "initialRunOnce"
    /\ running' = running - 1
    /\ \E err \in BOOLEAN :
        IF err
        THEN pcMain' = "exited" /\ UNCHANGED pcWatcher
        ELSE pcMain' = "select" /\ pcWatcher' = "start"
    /\ UNCHANGED <<nonWatchVars, owed, sigPending, stopClosed, watcherErrChan,
                   regenerateChan, events, pendingChanges, debounceTimer,
                   fires, callbacks, rebuildsOf>>

\* An interrupt or SIGTERM is delivered to sigChan.
SignalArrives ==
    /\ Alive
    /\ pcMain # "RunContinuous" /\ pcMain # "initialRunOnce"
    /\ ~sigPending
    /\ sigPending' = TRUE
    /\ UNCHANGED <<nonWatchVars, owed, pcMain, running, stopClosed, watcherErrChan,
                   regenerateChan, pcWatcher, events, pendingChanges,
                   debounceTimer, fires, callbacks, rebuildsOf>>

\* case <-sigChan: the watcher is stopped (stopChan is closed)
MainSignal ==
    /\ pcMain = "select"
    /\ sigPending
    /\ sigPending' = FALSE
    /\ stopClosed' = TRUE
    /\ pcMain' = "returning"
    /\ UNCHANGED <<nonWatchVars, owed, running, watcherErrChan, regenerateChan,
                   pcWatcher, events, pendingChanges, debounceTimer, fires,
                   callbacks, rebuildsOf>>

\* ... and RunContinuous returns nil, which ends the process
MainReturn ==
    /\ pcMain = "returning"
    /\ pcMain' = "exited"
    /\ UNCHANGED <<nonWatchVars, owed, running, sigPending, stopClosed,
                   watcherErrChan, regenerateChan, pcWatcher, events,
                   pendingChanges, debounceTimer, fires, callbacks, rebuildsOf>>

\* case err := <-watcherErrChan: RunContinuous returns
MainWatcherErr ==
    /\ pcMain = "select"
    /\ watcherErrChan # <<>>
    /\ watcherErrChan' = Tail(watcherErrChan)
    /\ pcMain' = "exited"
    /\ UNCHANGED <<nonWatchVars, owed, running, sigPending, stopClosed,
                   regenerateChan, pcWatcher, events, pendingChanges,
                   debounceTimer, fires, callbacks, rebuildsOf>>

\* case path := <-regenerateChan: RunOnce is called
RegenerateBegin ==
    /\ pcMain = "select"
    /\ regenerateChan # <<>>
    /\ regenerateChan' = Tail(regenerateChan)
    /\ running' = running + 1
    /\ rebuildsOf' = [rebuildsOf EXCEPT ![Head(regenerateChan).burst] = @ + 1]
    /\ pcMain' = InsideRunOnce
    /\ owed' = [owed EXCEPT !.rebuild = FALSE]
    /\ UNCHANGED <<nonWatchVars, sigPending, stopClosed, watcherErrChan,
                   pcWatcher, events, pendingChanges, debounceTimer, fires,
                   callbacks>>

\* RunOnce returns to the loop, which logs the failure or the success and
\* selects again (lines 161-166).
RegenerateEnd ==
    /\ Alive
    /\ pcMain # "initialRunOnce"
    /\ running > 0
    /\ running' = running - 1
    /\ pcMain' = "select"
    /\ UNCHANGED <<nonWatchVars, owed, sigPending, stopClosed, watcherErrChan,
                   regenerateChan, pcWatcher, events, pendingChanges,
                   debounceTimer, fires, callbacks, rebuildsOf>>

\* Watch, lines 43-47: fsnotify.NewWatcher fails and Watch returns the error
WatcherStartFails ==
    /\ Alive
    /\ pcWatcher = "start"
    /\ pcWatcher' = "returned"
    /\ watcherErrChan' = Append(watcherErrChan, "err")
    /\ UNCHANGED <<nonWatchVars, owed, pcMain, running, sigPending, stopClosed,
                   regenerateChan, events, pendingChanges, debounceTimer,
                   fires, callbacks, rebuildsOf>>

\* Watch, lines 50-85: the paths are added and the event loop is entered
WatcherStarts ==
    /\ Alive
    /\ pcWatcher = "start"
    /\ pcWatcher' = "loop"
    /\ UNCHANGED <<nonWatchVars, owed, pcMain, running, sigPending, stopClosed,
                   watcherErrChan, regenerateChan, events, pendingChanges,
                   debounceTimer, fires, callbacks, rebuildsOf>>

\* A callback whose range loop runs over the map the event loop writes to
RangingOverPending ==
    \E b \in DOMAIN callbacks : callbacks[b].attached /\ callbacks[b].phase = "range"

\* Watch, lines 95-113: a Write or Create event; the path is put into
\* pendingChanges, the timer is stopped and a new one is started.
WatchEvent ==
    /\ Alive
    /\ pcWatcher = "loop"
    /\ events < MaxEvents
    /\ \E path \in Paths :
        /\ events' = events + 1
        /\ pendingChanges' = pendingChanges \cup {path}
        /\ debounceTimer' = "armed"
        /\ owed' = [onChange |-> owed.onChange \cup {path}, rebuild |-> TRUE]
    /\ UNCHANGED <<nonWatchVars, pcMain, running, sigPending, stopClosed,
                   watcherErrChan, regenerateChan, pcWatcher, fires,
                   callbacks, rebuildsOf>>

\* The insertion of WatchEvent races with a range loop over the same map:
\* the runtime may stop the process ("concurrent map iteration and map
\* write").
WatchEventFatal ==
    /\ Alive
    /\ pcWatcher = "loop"
    /\ events < MaxEvents
    /\ RangingOverPending
    /\ events' = events + 1
    /\ pcMain' = "crashed"
    /\ owed' = [owed EXCEPT !.rebuild = TRUE]
    /\ UNCHANGED <<nonWatchVars, running, sigPending, stopClosed,
                   watcherErrChan, regenerateChan, pcWatcher, pendingChanges,
                   debounceTimer, fires, callbacks, rebuildsOf>>

\* Watch, lines 121-125: stopChan is closed; the timer is stopped and Watch
\* returns nil, which the goroutine of RunContinuous, line 130, sends on.
WatcherStopped ==
    /\ Alive
    /\ pcWatcher = "loop"
    /\ stopClosed
    /\ debounceTimer' = IF debounceTimer = "armed" THEN "stopped" ELSE debounceTimer
    /\ pcWatcher' = "returned"
    /\ watcherErrChan' = Append(watcherErrChan, "nil")
    /\ UNCHANGED <<nonWatchVars, owed, pcMain, running, sigPending, stopClosed,
                   regenerateChan, events, pendingChanges, fires, callbacks,
                   rebuildsOf>>

\* The debounce interval passes without a further event: the function given
\* to time.AfterFunc starts in its own goroutine and begins to range over
\* w.pendingChanges.
TimerFires ==
    /\ Alive
    /\ debounceTimer = "armed"
    /\ debounceTimer' = "fired"
    /\ fires' = fires + 1
    /\ callbacks' =
           [b \in DOMAIN callbacks \cup {fires + 1} |->
               IF b = fires + 1
               THEN [phase |-> "range", attached |-> TRUE, keys |-> {},
                     start |-> pendingChanges, produced |-> {}]
               ELSE callbacks[b]]
    /\ UNCHANGED <<nonWatchVars, owed, pcMain, running, sigPending, stopClosed,
                   watcherErrChan, regenerateChan, pcWatcher, events,
                   pendingChanges, rebuildsOf>>

\* The keys of the map a callback ranges over
KeysOf(b) == IF callbacks[b].attached THEN pendingChanges ELSE callbacks[b].keys

\* Lines 107-109: the range loop produces a key and onChange sends it to
\* regenerateChan (the send blocks while the channel is full).
CallbackOnChange ==
    /\ Alive
    /\ \E b \in DOMAIN callbacks :
        /\ callbacks[b].phase = "range"
        /\ Len(regenerateChan) < RegenerateCap
        /\ \E path \in KeysOf(b) \ callbacks[b].produced :
            /\ regenerateChan' = Append(regenerateChan, [path |-> path, burst |-> b])
            /\ callbacks' = [callbacks EXCEPT ![b].produced = @ \cup {path}]
            /\ owed' = [owed EXCEPT !.onChange = @ \ {path}]
    /\ UNCHANGED <<nonWatchVars, pcMain, running, sigPending, stopClosed,
                   watcherErrChan, pcWatcher, events, pendingChanges,
                   debounceTimer, fires, rebuildsOf>>

\* Lines 110-112: the range loop is over (every key the map held when it
\* started has been produced), pendingChanges is replaced by a new map and
\* the callback returns.
CallbackClear ==
    /\ Alive
    /\ \E b \in DOMAIN callbacks :
        /\ callbacks[b].phase = "range"
        /\ callbacks[b].start \subseteq callbacks[b].produced
        /\ pendingChanges' = {}
        /\ callbacks' =
               [c \in DOMAIN callbacks \ {b} |->
                   IF callbacks[c].attached
                   THEN [callbacks[c] EXCEPT !.attached = FALSE,
                                             !.keys = pendingChanges]
                   ELSE callbacks[c]]
    /\ UNCHANGED <<nonWatchVars, owed, pcMain, running, sigPending, stopClosed,
                   watcherErrChan, regenerateChan, pcWatcher, events,
                   debounceTimer, fires, rebuildsOf>>

WatchNext ==
    \/ InitialRunOnceBegin
    \/ InitialRunOnceEnd
    \/ SignalArrives
    \/ MainSignal
    \/ MainReturn
    \/ MainWatcherErr
    \/ RegenerateBegin
    \/ RegenerateEnd
    \/ WatcherStartFails
    \/ WatcherStarts
    \/ WatchEvent
    \/ WatchEventFatal
    \/ WatcherStopped
    \/ TimerFires
    \/ CallbackOnChange
    \/ CallbackClear

\* ------------------------------------------------------------------------
\* Specifications
\* ------------------------------------------------------------------------
\* The composer functions on the input texts
InitText == TextInit /\ BuildIdle /\ WatchIdle
SpecText == InitText /\ [][TextNext]_vars

\* One build of a site
InitBuild == TextIdle /\ BuildInit /\ WatchIdle
SpecBuild == InitBuild /\ [][BuildNext]_vars

\* ExtractTemplatesAndBody on the input files
InitFile == FileInit /\ BuildIdle /\ WatchIdle
SpecFile == InitFile /\ [][FileNext]_vars

InitPath == PathInit /\ BuildIdle /\ WatchIdle
SpecPath == InitPath /\ [][PathNext]_vars

InitRender == RenderInit /\ BuildIdle /\ WatchIdle
SpecRender == InitRender /\ [][RenderNext]_vars

InitData == DataInit /\ BuildIdle /\ WatchIdle
SpecData == InitData /\ [][DataNext]_vars

InitEncrypt == EncryptInit /\ BuildIdle /\ WatchIdle
SpecEncrypt == InitEncrypt /\ [][EncryptNext]_vars

\* findUsedComponents runs its statements one after the other in the
\* goroutine of Generate: a statement of the loop that can run is run
SpecUsage ==
    /\ InitBuild
    /\ [][BuildNext]_vars
    /\ WF_vars(UsedLoopHead)
    /\ WF_vars(UsedVisit)
    /\ WF_vars(UsedRangeEnd)

InitArtifacts == ArtifactsInit /\ BuildIdle /\ WatchIdle
SpecArtifacts == InitArtifacts /\ [][ArtifactsNext]_vars

InitTags == TagsInit /\ BuildIdle /\ WatchIdle
SpecTags == InitTags /\ [][TagsNext]_vars

InitKdf == KdfInit /\ BuildIdle /\ WatchIdle
SpecKdf == InitKdf /\ [][KdfNext]_vars

InitSeal == SealInit /\ BuildIdle /\ WatchIdle
SpecSeal == InitSeal /\ [][SealNext]_vars

\* Watch mode
InitWatch == TextIdle /\ BuildIdle /\ WatchInit
SpecWatch == InitWatch /\ [][WatchNext]_vars

\* Watch mode with its goroutines scheduled: the goroutine of RunContinuous,
\* the goroutine of Watch and the goroutines of the timer callbacks each
\* take a step they can take, and an armed timer expires. Events and
\* signals come when they come.
SpecWatchFair ==
    /\ InitWatch
    /\ [][WatchNext]_vars
    /\ WF_vars(InitialRunOnceBegin)
    /\ WF_vars(InitialRunOnceEnd)
    /\ WF_vars(MainSignal)
    /\ WF_vars(MainReturn)
    /\ WF_vars(MainWatcherErr)
    /\ WF_vars(RegenerateBegin)
    /\ WF_vars(RegenerateEnd)
    /\ WF_vars(WatcherStarts)
    /\ WF_vars(WatcherStopped)
    /\ WF_vars(TimerFires)
    /\ WF_vars(CallbackOnChange)
    /\ WF_vars(CallbackClear)

\* ------------------------------------------------------------------------
\* Claims about the composer
\* ------------------------------------------------------------------------
BodySplitters == {"ExtractWrapper", "ExtractMain", "WrapPageWithHeaderFooter"}

\* C7: ExtractWrapper, ExtractMain and WrapPageWithHeaderFooter return an
\* error and no template text whenever the document lacks the literal
\* substring <body> or lacks the literal substring </body>.
MissingBodyMarkerIsError ==
    (/\ textOp \in BodySplitters
     /\ (~Contains(doc, BodyOpen) \/ ~Contains(doc, BodyClose)))
    => (textOut.status = "error" /\ textOut.text = <<>>)

\* A document with <body> but without </body> was handed to ExtractMain.
MissingBodyCloseSeen ==
    /\ textOp = "ExtractMain"
    /\ Contains(doc, BodyOpen)
    /\ ~Contains(doc, BodyClose)
    /\ textOut.status = "error"

\* C8: a document with more than one <body> or more than one </body> marker
\* is rejected by the three body splitters with a structural error: it is
\* never split (at the first occurrence) into a template text.
DuplicateBodyMarkerIsRejected ==
    (/\ textOp \in BodySplitters
     /\ (Occurrences(doc, BodyOpen) > 1 \/ Occurrences(doc, BodyClose) > 1))
    => (textOut.status # "ok" /\ textOut.text = <<>>)

\* C9: after ReplaceComponentTags no literal <n> and no literal </n> of a
\* known component n is left in the result.
NoComponentTagLeft ==
    textOp = "ReplaceComponentTags"
    => \A n \in Names :
           /\ ~Contains(textOut.text, OpenTag(n))
           /\ ~Contains(textOut.text, CloseTag(n))

\* C10: the output of ReplaceComponentTags contains no <preview>...</preview>
\* span and no <encrypt>...</encrypt> span, whatever the input.
NoMarkerSpanLeft ==
    textOp = "ReplaceComponentTags"
    => /\ ~HasSpan(textOut.text, PreviewOpen, PreviewClose)
       /\ ~HasSpan(textOut.text, EncryptOpen, EncryptClose)

\* C11: rewriting the result of ReplaceComponentTags once more, with the same
\* components in any iteration order, gives the same text again.
RewritingIsIdempotent ==
    textOp = "ReplaceComponentTags"
    => \A order \in Orders(Names) :
           ReplaceComponentTags(textOut.text, order) = textOut.text

\* The head section of a file: the text before its first <body>
HeadSection(content) ==
    IF Contains(content, BodyOpen)
    THEN Slice(content, 0, Index(content, BodyOpen))
    ELSE content

\* X, with `.` prepended when X is non-empty and does not start with `.`
Dotted(x) == IF x # <<>> /\ x[1] # "." THEN <<".">> \o x ELSE x

\* The content of the first <preview>X</preview> span of `section`, dotted;
\* empty when the section has no such span
FirstPreviewOf(section) ==
    LET start == Index(section, PreviewOpen)
        end == Index(Slice(section, start + Len(PreviewOpen), Len(section)),
                     PreviewClose)
    IN  IF start = -1 THEN <<>>
        ELSE IF end = -1 THEN <<>>
        ELSE Dotted(Slice(section, start + Len(PreviewOpen),
                          start + Len(PreviewOpen) + end))

\* C12: the data path of a component is the dotted content of the first
\* <preview>X</preview> span of the head section of its file; a span that
\* occurs only after <body> does not set it.
DataPathIsFirstHeadPreview ==
    (textOp = "ExtractTemplatesAndBody" /\ textOut.status = "ok")
    => textOut.dataPath = FirstPreviewOf(HeadSection(doc))

\* ------------------------------------------------------------------------
\* Claims about the path adjuster
\* ------------------------------------------------------------------------
\* The offsets at which the value of an href= or src= attribute begins
AttrValueStarts(s) ==
    {p \in 0..Len(s) :
        \/ p >= Len(HrefAttr) /\ MatchAt(s, HrefAttr, p - Len(HrefAttr))
        \/ p >= Len(SrcAttr) /\ MatchAt(s, SrcAttr, p - Len(SrcAttr))}

\* The attribute value beginning at offset p: the text up to the closing quote
AttrValueAt(s, p) ==
    LET quotes == {k \in p..(Len(s) - 1) : s[k + 1] = "\""}
    IN  IF quotes = {} THEN <<>> ELSE Slice(s, p, MinOf(quotes))

\* begins with a letter, has no scheme separator, does not begin with ../
IsRelativeValue(value) ==
    /\ value # <<>>
    /\ IsLetter(value[1])
    /\ ~Contains(value, <<":">>)
    /\ ~HasPrefix(value, UpSegment)

RelativeValueStarts(s) ==
    {p \in AttrValueStarts(s) : IsRelativeValue(AttrValueAt(s, p))}

\* s with prefix inserted at every offset of P
RECURSIVE InsertFrom(_, _, _, _)
InsertFrom(s, i, P, prefix) ==
    IF i >= Len(s) THEN <<>>
    ELSE (IF i \in P THEN prefix ELSE <<>>) \o <<s[i + 1]>>
         \o InsertFrom(s, i + 1, P, prefix)

InsertAt(s, P, prefix) == InsertFrom(s, 0, P, prefix)

\* C13: for a depth above 0, AdjustPathsForDepth prepends exactly depth copies
\* of ../ to every relative href= and src= value, whichever element carries it.
EveryRelativeValueIsPrefixed ==
    (textOp = "AdjustPathsForDepth" /\ textDepth > 0)
    => textOut.text = InsertAt(doc, RelativeValueStarts(doc),
                               Repeat(UpSegment, textDepth))

\* The attribute values that are absolute, already upward-relative or a URL
IsFixedValue(value) ==
    \/ HasPrefix(value, <<"/">>)
    \/ HasPrefix(value, UpSegment)
    \/ Contains(value, <<":">>)

FixedValueStarts(s) ==
    {p \in AttrValueStarts(s) : IsFixedValue(AttrValueAt(s, p))}

PathAdjusted == textOp \in {"AdjustPathsForDepth", "AdjustPathsForPreview"}

\* the prefix the call was asked to put in front of values
AskedPrefix ==
    IF textOp = "AdjustPathsForPreview" THEN UpSegment \o UpSegment
    ELSE Repeat(UpSegment, textDepth)

\* C14: the path adjuster changes a text only by putting the prefix in front
\* of href/src values that are not absolute, upward-relative or a URL: those
\* values and all text outside values stay as they are, and for depth 0 the
\* whole text is returned unchanged.
OnlyOtherValuesArePrefixed ==
    PathAdjusted
    => /\ \E P \in SUBSET (AttrValueStarts(doc) \ FixedValueStarts(doc)) :
              textOut.text = InsertAt(doc, P, AskedPrefix)
       /\ (textOp = "AdjustPathsForDepth" /\ textDepth = 0) => textOut.text = doc

\* a text with a fixed value next to a value that was rewritten
FixedValueKeptBesideRewritten ==
    /\ PathAdjusted
    /\ textOut.text # doc
    /\ FixedValueStarts(doc) # {}

\* ------------------------------------------------------------------------
\* Claims about the generators
\* ------------------------------------------------------------------------
PreviewWritten ==
    /\ textOp \in {"generateComponentPreview", "generatePagePreview",
                   "GenerateMainSitePreview"}
    /\ textOut.status = "ok"

\* C15: AdjustPathsForPreview gives what AdjustPathsForDepth gives for depth 2,
\* and the preview of a component, of a page and of the main page is the
\* rendered text, cleaned of blank lines and path-adjusted for depth 2,
\* whatever the output path of the page is.
PreviewIsDepthTwo ==
    /\ textOp = "AdjustPathsForPreview"
       => textOut.text = AdjustPathsForDepth(doc, 2)
    /\ PreviewWritten
       => textOut.text = AdjustPathsForDepth(CleanupWhitespace(doc), 2)

\* the preview of a page one directory down, with a value that was rewritten
NestedPagePreviewRewritten ==
    /\ textOp = "generatePagePreview"
    /\ textOut.status = "ok"
    /\ Len(Dir(textPath)) = 1
    /\ textOut.text # CleanupWhitespace(doc)
    /\ CleanupWhitespace(doc) # doc

\* the directory levels between the file of a page and the output root
NestingDepth(OutputPath) == Len(Dir(OutputPath))

\* C16: the file of a page and its preview come from the same rendered text
\* cleaned of blank lines: the file is that text path-adjusted for the depth of
\* the page under the output root, the preview is it adjusted for previews.
PageAndPreviewDifferByPrefix ==
    /\ (textOp = "generatePage" /\ textOut.status = "ok")
       => textOut.text = AdjustPathsForDepth(CleanupWhitespace(doc),
                                             NestingDepth(textPath))
    /\ (textOp = "generatePagePreview" /\ textOut.status = "ok")
       => textOut.text = AdjustPathsForPreview(CleanupWhitespace(doc))

\* ------------------------------------------------------------------------
\* Claims about the data context
\* ------------------------------------------------------------------------
\* The value the segments address from node, or the first segment that is
\* missing or is asked of a node that is not a mapping
RECURSIVE Addressed(_, _)
Addressed(node, segments) ==
    IF segments = <<>> THEN [found |-> TRUE, value |-> node, failing |-> <<>>]
    ELSE IF node.kind = "map" /\ Head(segments) \in DOMAIN node.entries
    THEN Addressed(node.entries[Head(segments)], Tail(segments))
    ELSE [found |-> FALSE, value |-> NilValue, failing |-> Head(segments)]

\* C17: Get returns the value its path addresses through mappings and no
\* error, or no value and a DataPathError with the whole path and the first
\* segment that is missing or is asked of a node that is not a mapping.
GetResolvesThroughMappings ==
    textOp = "Get"
    => LET r == Addressed(ctxData, splitPath(doc))
       IN  IF r.found
           THEN textOut = [value |-> r.value, err |-> NoError]
           ELSE textOut = [value |-> NilValue,
                           err |-> DataPathError(doc, r.failing)]

\* `.projects.Featured.Title` asked of a tree whose projects is not a mapping:
\* the error names Featured, not Title
NonMappingSegmentNamed ==
    /\ textOp = "Get"
    /\ splitPath(doc) = <<KeyProjects, KeyFeatured, KeyTitle>>
    /\ KeyProjects \in DOMAIN ctxData.entries
    /\ ctxData.entries[KeyProjects].kind # "map"
    /\ textOut.value = NilValue
    /\ textOut.err = DataPathError(doc, KeyFeatured)

\* ------------------------------------------------------------------------
\* Claims about the usage analyzer and the build cycle
\* ------------------------------------------------------------------------
Logged(msg) == \E i \in 1..Len(log) : log[i] = msg
Ran(step) == \E i \in 1..Len(ranSteps) : ranSteps[i] = step

\* findUsedComponents has just returned its result to Generate
UsedReturned == pc = "GenerateComponentPreviews"

\* reportUnusedComponents has just listed the unused components
Reported == pc = "RunOnceReturn"

\* The body of a component as its file has it, before any rewriting
SourceBody(n) == ExtractTemplatesAndBody(fsComponents[n]).body

RefersTo(text, n) == Contains(text, OpenTag(n))

\* <<a, b>>: the body of component a, as its file has it, names component b
RefEdges ==
    UNION {{<<a, b>> : b \in {c \in CompNames : RefersTo(SourceBody(a), c)}} :
              a \in CompNames}

\* The ends of the chains that start in `seeds` and follow `edges`
ChainEnds(seeds, edges) ==
    {n \in CompNames :
        \E k \in 1..Cardinality(CompNames) :
            \E chain \in [1..k -> CompNames] :
                /\ chain[1] \in seeds
                /\ chain[k] = n
                /\ \A i \in 1..(k - 1) : <<chain[i], chain[i + 1]>> \in edges}

\* The components a chain of literal tags leads to from the set `seeds`
Reachable(seeds) == ChainEnds(seeds, RefEdges)

\* Named by the main template or by the original content of a page
MainAndPageSeeds ==
    {n \in CompNames :
        \/ RefersTo(fsIndex, n)
        \/ \E i \in 1..Len(fsPages) : RefersTo(fsPages[i].Content, n)}

\* Named by the rewritten text of the header or of the footer
RewrittenHeaderFooterSeeds ==
    {n \in CompNames : RefersTo(headerContent, n) \/ RefersTo(footerContent, n)}

HeaderFooterAreEntryPoints ==
    \A n \in CompNames :
        (RefersTo(fsHeader, n) \/ RefersTo(fsFooter, n))
        => /\ UsedReturned => n \in used
           /\ n \notin unusedReport

\* C5: once a step of Load or Generate has returned an error, no later step
\* of the cycle has run, RunOnce has returned a non-nil error and the success
\* message has not been logged.
AbortedBuildIsNotSuccess ==
    failedStep # "none"
    => /\ ranSteps[Len(ranSteps)] = failedStep
       /\ pc = "returned"
       /\ runErr
       /\ ~Logged("Site generated successfully")
       /\ ~Logged("Site generation complete!")

\* A build was aborted in GeneratePages after artifacts had been written.
AbortedAfterWrites ==
    /\ failedStep = "GeneratePages"
    /\ written # {}
    /\ pc = "returned"

\* The passphrase a page file declares in its head
DeclaredPassphrase(content) ==
    IF Contains(content, BodyOpen)
    THEN ExtractEncryptKey(Slice(content, 0, Index(content, BodyOpen)))
    ELSE <<>>

\* C6: the main artifact of a page whose head declares a non-empty
\* passphrase is the sealed artifact, not the plaintext rendering.
EncryptedPageMainIsSealed ==
    \A a \in written :
        a.kind = "page"
        => \A i \in 1..Len(fsPages) :
               (fsPages[i].OutputPath = a.id
                /\ DeclaredPassphrase(fsPages[i].Content) # <<>>)
               => a.sealed

\* ------------------------------------------------------------------------
\* Claims about watch mode
\* ------------------------------------------------------------------------
\* C3: a RunOnce is never started while another RunOnce is executing.
RebuildsNeverOverlap == running <= 1

\* A rebuild is in flight while another change waits in regenerateChan.
ChangeWaitsDuringRebuild ==
    /\ pcMain = "RunOnce"
    /\ running = 1
    /\ regenerateChan # <<>>

\* C4: the paths changed within one debounce interval start exactly one
\* rebuild, not one per path.
OneRebuildPerBurst == \A b \in 1..MaxEvents : rebuildsOf[b] <= 1

\* ------------------------------------------------------------------------
\* Claims about the steps of Generate
\* ------------------------------------------------------------------------
GenerateSteps ==
    {"GenerateComponentPreviews", "GenerateMainSite", "GeneratePages",
     "CopyAssets", "CopyStylesheet"}

\* C18: the components that are not used never change how a build ends: only
\* a generation step can fail it, a build none of whose steps failed ran them
\* all and returns nil, and the report lists exactly the components outside
\* `used` under a warning line.
UnusedComponentsNeverFailBuild ==
    /\ failedStep \notin {"findUsedComponents", "reportUnusedComponents"}
    /\ Reported
       => /\ failedStep = "none" /\ ~runErr
          /\ \A step \in GenerateSteps : Ran(step)
          /\ unusedReport = DOMAIN components \ used
          /\ Logged("Unused components detected:") <=> unusedReport # {}
          /\ Logged("Site generation complete!")
    /\ (pc = "returned" /\ Ran("findUsedComponents"))
       => IF failedStep = "none"
          THEN ~runErr /\ Ran("reportUnusedComponents")
          ELSE runErr /\ failedStep \in GenerateSteps

\* a build that wrote the main page and returned nil with a component unused
BuildSucceededWithUnused ==
    /\ pc = "returned"
    /\ ~runErr
    /\ unusedReport # {}
    /\ Logged("Site generated successfully")
    /\ \E a \in written : a.kind = "main-index"

\* C19: a site without header.html or without footer.html generates: when
\* Generate comes to the main page of such a site, GenerateMainSite can
\* render and write it and go on to the pages.
SiteWithoutHeaderOrFooterGenerates ==
    (pc = "GenerateMainSite" /\ (fsHeader = <<>> \/ fsFooter = <<>>))
    => ENABLED (GenerateMainSite /\ pc' = "GeneratePages")

\* ------------------------------------------------------------------------
\* Claims about the encryptor
\* ------------------------------------------------------------------------
RandomFailed == \E i \in 1..Len(textOut.reads) : textOut.reads[i] = "failed"

\* C20: when a read of crypto/rand fails Encrypt returns an error and nil for
\* salt, nonce and ciphertext, that read is its last, and it derives no key
\* and seals nothing; when it returns no error the salt has 16 bytes and the
\* nonce 12.
RandomFailureIsFatal ==
    textOp = "Encrypt"
    => /\ RandomFailed
          => /\ textOut.err # "nil"
             /\ textOut.salt = NilBytes
             /\ textOut.iv = NilBytes
             /\ textOut.ciphertext = NilBytes
             /\ textOut.reads[Len(textOut.reads)] = "failed"
             /\ \A i \in 1..(Len(textOut.reads) - 1) : textOut.reads[i] = "ok"
             /\ ~textOut.derived /\ ~textOut.sealed
       /\ textOut.err = "nil"
          => /\ ~textOut.salt.nil /\ Len(textOut.salt.bytes) = 16
             /\ ~textOut.iv.nil /\ Len(textOut.iv.bytes) = 12
             /\ textOut.reads = <<"ok", "ok">>

\* the salt was read and the read of the nonce failed
NonceReadFailedAfterSalt ==
    /\ textOp = "Encrypt"
    /\ textOut.reads = <<"ok", "failed">>
    /\ textOut.err = "failed to generate IV"
    /\ textOut.salt = NilBytes

\* C21: opening a sealed page with the passphrase it was sealed with, which
\* is not empty, gives back the text that was sealed.
OpenGivesSealedText ==
    (textOp = "decrypt" /\ textOut.typed = textKey /\ textKey # <<>>)
    => textOut.status = "ok" /\ textOut.text = doc

\* The passes of the fixed-point loop that have added a component: every
\* completed pass but one that left `changed` unset
AddingPasses ==
    IF passes > 0 /\ ~changed /\ pc # "usedRange" THEN passes - 1 ELSE passes

InUsedLoop == pc \in {"usedLoop", "usedRange"}

\* C22: the fixed-point loop of findUsedComponents ends for every reference
\* graph; while it runs the used set only grows and holds only component
\* names, and at most as many passes as there are components add one.
UsedLoopTerminates ==
    /\ [](/\ used \subseteq DOMAIN components
          /\ AddingPasses <= Cardinality(DOMAIN components))
    /\ [][InUsedLoop => used \subseteq used']_vars
    /\ (InUsedLoop ~> UsedReturned)

\* The loop has returned after a second pass over components that name
\* each other in a cycle
UsedLoopLeftCycle ==
    /\ UsedReturned
    /\ passes >= 2
    /\ \E n \in used : n \in Reachable({n})

\* The keys of the component map that was ranged over
OrderedNames == {textOrder[i] : i \in 1..Len(textOrder)}

\* No `<` and no `>` in the name
AngleFree(name) == \A i \in 1..Len(name) : name[i] \notin {"<", ">"}

PageDepthIsNestingDepth ==
    textOp = "generatePage" => PageDepth(textPath) = NestingDepth(textPath)

\* The steps of Generate that render templates
RenderSteps == {"GenerateComponentPreviews", "GenerateMainSite", "GeneratePages"}

\* The first rendering step has been reached
RenderingReached == pc \in RenderSteps \/ \E step \in RenderSteps : Ran(step)

\* Every component is parsed and rewritten, with its dependencies taken from
\* its body as parsed
Composed ==
    /\ Ran("ParseComponents")
    /\ Ran("ReplaceComponentTags")
    /\ \A n \in DOMAIN components :
           /\ originalComponentTemplates[n] = SourceBody(n)
           /\ components[n].Template \in RewriteOutcomes(originalComponentTemplates[n])
           /\ components[n].Dependencies =
                  {d \in DOMAIN components :
                      Contains(originalComponentTemplates[n], OpenTag(d))}

\* C25: when the first rendering step begins every component has been parsed
\* and rewritten and has its dependencies from its body before rewriting,
\* and from then on no component is modified.
CompositionPrecedesRendering ==
    /\ [](pc = "GenerateComponentPreviews" => Composed)
    /\ [][RenderingReached => components' = components]_vars

\* A preview was rendered of a component whose body names another one and
\* was rewritten
RenderedRewrittenComponent ==
    \E n \in DOMAIN components :
        /\ \E w \in written : w.kind = "component-preview" /\ w.id = n
        /\ components[n].Dependencies # {}
        /\ components[n].Template # originalComponentTemplates[n]

\* U_i of block b: U_1 = HMAC(P, S || INT(b)), U_i = HMAC(P, U_(i-1))
RECURSIVE KdfU(_, _, _, _)
KdfU(P, S, b, i) ==
    IF i = 1
    THEN Hmac(P, S \o <<(b \div 16777216) % 256, (b \div 65536) % 256,
                        (b \div 256) % 256, b % 256>>)
    ELSE Hmac(P, KdfU(P, S, b, i - 1))

\* T_b = U_1 xor U_2 xor ... xor U_c
RECURSIVE KdfT(_, _, _, _)
KdfT(P, S, c, b) ==
    IF c = 1 THEN KdfU(P, S, b, 1)
    ELSE [j \in 1..sha256Size |-> Xor(KdfT(P, S, c - 1, b)[j], KdfU(P, S, b, c)[j])]

\* The first dkLen bytes of T_1 || T_2 || ...
DerivedKey(P, S, c, dkLen) ==
    SubSeq(Flatten([b \in 1..((dkLen + sha256Size - 1) \div sha256Size) |->
                       KdfT(P, S, c, b)]),
           1, dkLen)

\* C26: every block pbkdf2Block returns is U_1 xor ... xor U_iter, made with
\* iter evaluations of HMAC, and pbkdf2 returns the first keyLen bytes of the
\* blocks in a row.
Pbkdf2IsStandard ==
    /\ (textOp = "pbkdf2" /\ textOut.at = "for i" /\ textOut.i >= textOut.iter)
       => /\ textOut.result = KdfT(textKey, doc, textOut.iter, textOut.block)
          /\ textOut.sums = textOut.iter
    /\ (textOp = "pbkdf2" /\ textOut.at = "returned")
       => /\ textOut.key = DerivedKey(textKey, doc, textOut.iter, textOut.keyLen)
          /\ Len(textOut.key) = textOut.keyLen

\* A key longer than one block was returned after more than one iteration
TwoBlockKeyReturned ==
    /\ textOp = "pbkdf2"
    /\ textOut.at = "returned"
    /\ textOut.iter >= 3
    /\ textOut.keyLen > sha256Size
    /\ textKey # <<>>

\* ------------------------------------------------------------------------
\* Claims about the watcher
\* ------------------------------------------------------------------------
\* The process has ended or is being stopped
WatchEnded == ~Alive \/ stopClosed \/ sigPending \/ pcWatcher = "returned"

\* Every event delivered so far has been given to onChange since, and a
\* rebuild has started since the last one
NothingOwed == owed.onChange = {} /\ ~owed.rebuild

\* C27: after a Write or Create event its path is eventually given to
\* onChange and a rebuild eventually starts, unless the process is stopped
\* first; an event that arrives while a timer callback ranges over
\* pendingChanges and then clears it is not lost.
EveryChangeIsRebuilt == (~NothingOwed) ~> (NothingOwed \/ WatchEnded)

\* C28: no event is put into pendingChanges while a timer callback ranges
\* over it.
NoInsertionWhileRanging == [][events' # events => ~RangingOverPending]_vars

\* C29: the files of two different artifacts of one build are different
\* files: the previews of the components, of the pages and of the main
\* index, the pages and the main index do not overwrite one another.
NoTwoArtifactsOnOneFile ==
    \A v, w \in textOut.writes :
        v.file = w.file => (v.kind = w.kind /\ v.id = w.id)

\* <body> is in the text and </body> comes after it
BodyOpensThenCloses(html) ==
    \E i \in 0..(Len(html) - 1) :
        /\ MatchAt(html, BodyOpen, i)
        /\ \E j \in (i + Len(BodyOpen))..(Len(html) - 1) : MatchAt(html, BodyClose, j)

\* C30: splitHTMLBody gives the three parts of every text that has <body>
\* and later </body>, also when </body> ends the text, and the parts with
\* the two tags between them are the text again; it does not stop with a
\* slice out of range when </body> comes before <body>.
SplitBodyGivesParts ==
    textOp = "WrapPageWithHeaderFooter"
    => /\ splitHTMLBody(doc).kind # "panic"
       /\ BodyOpensThenCloses(doc)
          => /\ splitHTMLBody(doc).kind = "parts"
             /\ splitHTMLBody(doc).parts[1] \o BodyOpen \o splitHTMLBody(doc).parts[2]
                    \o BodyClose \o splitHTMLBody(doc).parts[3] = doc

====
